---- MODULE Spec2Model ----
(***************************************************************************)
(* Verification model of the retrieval core of the RFP analysis platform   *)
(* (backend/muRag_vlm.py, backend/promptEnhancer.py, the start-up and the  *)
(* progress broadcast of backend/main.py, and src/orchestrator.py).        *)
(*                                                                         *)
(* The program is a set of sequential subsystems.  Each has its own        *)
(* specification over the shared variables; a specification leaves the     *)
(* variables of the other subsystems unchanged.                            *)
(*   SpecSearch   : filtered similarity search over a vector index         *)
(*   SpecClassify : the scanned-PDF classifier                             *)
(*   SpecVlm      : page-by-page vision extraction of one scanned PDF      *)
(*   SpecIngest   : one ingestion pass, load_and_chunk_documents           *)
(*   SpecStartup  : start of the API and of the CLI over ./faiss_index     *)
(*   SpecJudge    : the CLI analysis loop and the faithfulness judge        *)
(*   SpecAssess   : calls of assess_faithfulness on drawn inputs            *)
(*   SpecEvaluate : the two evaluation functions on the same globals       *)
(*   SpecIndex    : create_faiss_index, FAISS.load_local and search         *)
(*   SpecEnhance  : promptEnhancer.py over the globals of muRag_vlm.py      *)
(*   SpecBroadcast : broadcast_progress and websocket_endpoint of main.py   *)
(*   SpecOrchestrate : AgentOrchestrator.orchestrate_parallel_analysis      *)
(*   SpecAnalysis : execute_complete_rfp_analysis on drawn failures       *)
(***************************************************************************)
EXTENDS Integers, Sequences, FiniteSets, TLC

VARIABLES
    vectorstore,   \* the FAISS index: its chunks, nearest to the query first
    call,          \* the retrieval call that was made last, or NoCall
    results,       \* the list that call returned
    nnQueries,     \* the k of every similarity_search that call issued
    pdf,           \* the PDF file handed to the classifier or the extractor
    scanned,       \* <<what is_pdf_scanned returned for pdf>>, <<>> before the call
    vlmPc,         \* position of extract_text_from_scanned_pdf in its code
    pageIdx,       \* its loop index i (pages done so far)
    extracted_texts, \* its list of page segments
    extracted,     \* the text it returned, or Unset
    vlmLog,        \* the vision-model traffic, oldest event first
    fs,            \* the PDF files on disk: records [folder, name, pdf]
    vlm_client,    \* the vlm_client argument of the pass: None or a client
    pdf_folders,   \* the pdf_folders argument of the pass
    ingestPc,      \* position of load_and_chunk_documents in its code
    folderIdx,     \* index of the folder the pass is in
    processed,     \* names of the files of that folder already processed
    all_documents, \* its list of documents
    document_registry,    \* its dict doc_id -> registry entry
    rfp_response_mapping, \* its dict project number -> mapping entry
    nextId,        \* the next unused doc id (uuid4 never repeats)
    chunks,        \* the chunk list it returned
    disk_registry, \* <<content>> of ./document_registry.json, <<>> if none
    disk_mapping,  \* <<content>> of ./rfp_response_mapping.json, <<>> if none
    entry,         \* the program being started: "api" or "cli"
    startPc,       \* position of the startup in its code
    faiss_index,   \* ./faiss_index on disk: NoIndex or Index(ok, gen)
    registry_files,\* <<generation>> of the two registry JSON files, <<>> if none
    sources,       \* what an ingestion of the source folders comes to
    loaded_index,  \* <<generation>> of the vector store the process holds, or <<>>
    console,       \* the messages this startup has printed
    restarts,      \* number of startups before this one
    judge_configured,  \* judge_llm and faith_metric were set at import
    metric_threshold,  \* faith_metric.threshold, in hundredths
    loopPc,            \* position of main's analysis loop
    request,           \* ordinal of the request the loop is serving
    complete_analysis, \* what execute_complete_rfp_analysis returned
    evaluation_result, \* the last evaluation record of the loop, or <<>>
    analysisLog,       \* generations and judge measurements, oldest first
    assessCall,        \* arguments of the last assess_faithfulness call
    assessResult,      \* what that call returned, or <<>>
    last_evaluation_score,  \* the module global, <<>> for None
    last_evaluation_reason, \* the module global, <<>> for None
    built_index,    \* <<the FAISS object create_faiss_index returned>>, or <<>>
    index_dir,      \* <<the files of ./faiss_index>>, or <<>>
    loaded_store,   \* <<the FAISS object FAISS.load_local returned>>, or <<>>
    index_query,    \* the last query and k searched, or <<>>
    fresh_results,  \* what the built index answered to it
    loaded_results, \* what the loaded index answered to it
    enhancerPc,  \* "not_imported" or "imported": promptEnhancer.py line 36 has run
    last_analysis_prompt,  \* the muRag_vlm module global, <<>> for None
    enhancer_last_evaluation_score,  \* promptEnhancer's own name of that import, <<>> for None
    enhancer_last_evaluation_reason,  \* likewise
    enhancer_last_analysis_prompt,  \* likewise
    enhanceCall,  \* the last enhance_from_murag_evaluation call and muRag_vlm's globals then
    judge_reports,  \* <<the judge report that call built>>, or <<>>
    enhanced, \* <<what that call returned>>, or <<>>
    active_connections,  \* the module-level list of main.py, oldest first
    open_sockets,  \* the connections whose client has not closed
    wsPc,  \* position of each connection's websocket_endpoint coroutine
    bcPc,  \* position of broadcast_progress in its code
    bcIdx,  \* the index of its list iterator
    connection,  \* <<the connection its send awaits>>, or <<>>
    disconnected, \* its list of connections whose send raised
    agents,  \* the names in self.agents of the orchestrator
    executor_shutdown,  \* self.executor has been shut down
    orchPc,  \* position of orchestrate_parallel_analysis in its code
    orchCalls,  \* number of calls made on the orchestrator
    uses,  \* what agent.use does on this call's input, per agent
    futures,  \* the state and result of this call's two futures
    orchResults, \* <<the dict the last call returned>>, or <<>>
    analysisCall,  \* <<what fails in the last execute_complete_rfp_analysis call>>, or <<>>
    analysisReturn  \* <<what that call returned>>, or <<>>

searchVars == <<vectorstore, call, results, nnQueries>>
classifyVars == <<scanned>>
vlmVars == <<vlmPc, pageIdx, extracted_texts, extracted, vlmLog>>
ingestInputs == <<fs, vlm_client, pdf_folders>>
ingestVars == <<ingestPc, folderIdx, processed, all_documents, document_registry,
                rfp_response_mapping, nextId, chunks, disk_registry, disk_mapping>>
startVars == <<entry, startPc, faiss_index, registry_files, sources, loaded_index,
               console, restarts>>
judgeVars == <<judge_configured, metric_threshold, loopPc, request,
               complete_analysis, evaluation_result, analysisLog, assessCall,
               assessResult, last_evaluation_score, last_evaluation_reason>>
indexVars == <<built_index, index_dir, loaded_store, index_query, fresh_results,
               loaded_results>>
enhanceVars == <<enhancerPc, last_analysis_prompt,
                 enhancer_last_evaluation_score,
                 enhancer_last_evaluation_reason,
                 enhancer_last_analysis_prompt, enhanceCall, judge_reports,
                 enhanced>>
wsVars == <<active_connections, open_sockets, wsPc, bcPc, bcIdx, connection,
            disconnected>>
orchVars == <<agents, executor_shutdown, orchPc, orchCalls, uses, futures,
              orchResults>>
analysisVars == <<analysisCall, analysisReturn>>
\* What each subsystem leaves alone.
searchFrame == <<pdf, classifyVars, vlmVars, ingestInputs, ingestVars,
                 startVars, judgeVars, indexVars, enhanceVars, wsVars,
                 orchVars, analysisVars>>
classifyFrame == <<searchVars, vlmVars, ingestInputs, ingestVars, startVars,
                   judgeVars, indexVars, enhanceVars, wsVars, orchVars,
                   analysisVars>>
vlmFrame == <<searchVars, classifyVars, ingestInputs, ingestVars, startVars,
              judgeVars, indexVars, enhanceVars, wsVars, orchVars,
              analysisVars>>
ingestFrame == <<searchVars, pdf, classifyVars, vlmVars, startVars,
                 judgeVars, indexVars, enhanceVars, wsVars, orchVars,
                 analysisVars>>
startFrame == <<searchVars, pdf, classifyVars, vlmVars, ingestInputs,
                ingestVars, judgeVars, indexVars, enhanceVars, wsVars,
                orchVars, analysisVars>>
judgeFrame == <<searchVars, pdf, classifyVars, vlmVars, ingestInputs,
                ingestVars, startVars, indexVars, enhanceVars, wsVars,
                orchVars, analysisVars>>
indexFrame == <<searchVars, pdf, classifyVars, vlmVars, ingestInputs,
                ingestVars, startVars, judgeVars, enhanceVars, wsVars,
                orchVars, analysisVars>>
enhanceFrame == <<searchVars, pdf, classifyVars, vlmVars, ingestInputs,
                  ingestVars, startVars, judgeVars, indexVars, wsVars,
                  orchVars, analysisVars>>
wsFrame == <<searchVars, pdf, classifyVars, vlmVars, ingestInputs,
             ingestVars, startVars, judgeVars, indexVars, enhanceVars,
             orchVars, analysisVars>>
orchFrame == <<searchVars, pdf, classifyVars, vlmVars, ingestInputs,
               ingestVars, startVars, judgeVars, indexVars, enhanceVars,
               wsVars, analysisVars>>
analysisFrame == <<searchVars, pdf, classifyVars, vlmVars, ingestInputs,
                   ingestVars, startVars, judgeVars, indexVars, enhanceVars,
                   wsVars, orchVars>>
vars == <<vectorstore, call, results, nnQueries, pdf, scanned, vlmPc,
          pageIdx, extracted_texts, extracted, vlmLog, fs, vlm_client,
          pdf_folders, ingestPc, folderIdx, processed, all_documents,
          document_registry, rfp_response_mapping, nextId, chunks,
          disk_registry, disk_mapping, entry, startPc, faiss_index,
          registry_files, sources, loaded_index, console, restarts,
          judge_configured, metric_threshold, loopPc, request,
          complete_analysis, evaluation_result, analysisLog, assessCall,
          assessResult, last_evaluation_score, last_evaluation_reason,
          built_index, index_dir, loaded_store, index_query, fresh_results,
          loaded_results, enhancerPc, last_analysis_prompt,
          enhancer_last_evaluation_score, enhancer_last_evaluation_reason,
          enhancer_last_analysis_prompt, enhanceCall, judge_reports,
          enhanced, active_connections, open_sockets, wsPc, bcPc, bcIdx,
          connection, disconnected, agents, executor_shutdown, orchPc,
          orchCalls, uses, futures, orchResults, analysisCall,
          analysisReturn>>

----------------------------------------------------------------------------
\* Bounds of the model.
MaxK == 2             \* largest k of a retrieval call
MaxCorpus == 5        \* largest corpus with chunks of every status and category
MaxLongCorpus == 11   \* largest corpus of requirement chunks only

MaxPages == 4         \* most pages of a PDF handed to the classifier
MaxScanPages == 3     \* most pages of a PDF handed to the vision extractor

MaxFiles == 2         \* most PDF files on disk during an ingestion pass
MaxRestarts == 1      \* most restarts after the first startup
MaxRequests == 2      \* most analysis requests of one CLI session
MaxJudgeCorpus == 3   \* largest index the analysis loop runs over
MaxIndexChunks == 3   \* longest chunk list an index is built from

None == "None"
\* The value of a variable no text has been assigned to yet: no text the
\* program produces.
Unset == <<[kind |-> "unset", n |-> 0]>>
Min(a, b) == IF a <= b THEN a ELSE b

Prefix(s, n) == SubSeq(s, 1, Min(n, Len(s)))

\* Whether part occurs in text as a contiguous run (Python's "part in text").
Contains(text, part) ==
    \E o \in 0..(Len(text) - Len(part)) : SubSeq(text, o + 1, o + Len(part)) = part

----------------------------------------------------------------------------
\* Metadata values written by load_and_chunk_documents.folder_mapping.
RfpStatuses == {"approved", "rejected"}
DocCategories == {"rfp", "response"}

\* A chunk of the index.  rank is its identity: the position of the chunk in
\* the similarity order of the query at hand, so that drawing every sequence
\* of metadata covers every corpus and every query over it.
Chunk(i, st, cat) == [rank |-> i, rfp_status |-> st, doc_category |-> cat]

ShortCorpora ==
    UNION {{[i \in 1..n |-> Chunk(i, m[i][1], m[i][2])] :
               m \in [1..n -> RfpStatuses \X DocCategories]} : n \in 0..MaxCorpus}
LongCorpora ==
    UNION {{[i \in 1..n |-> Chunk(i, m[i], "rfp")] :
               m \in [1..n -> RfpStatuses]} : n \in (MaxCorpus + 1)..MaxLongCorpus}

\* FAISS.similarity_search(query, k): the k nearest chunks, nearest first; all
\* of the index when it holds fewer than k.
similarity_search(vs, k) == Prefix(vs, k)

\* The oversampling factors of the two filtered searches.
StatusOversample == 5
CategoryOversample == 4

\* The status search without its metadata test.
retrieve_unfiltered(vs, k, rfp_status) ==
    [docs |-> Prefix(similarity_search(vs, k * StatusOversample), k),
     queries |-> IF rfp_status = None THEN <<k>> ELSE <<k * StatusOversample>>]

\* The status search cutting to k before it filters.
retrieve_cut_then_filter(vs, k, rfp_status) ==
    IF rfp_status = None
    THEN [docs |-> similarity_search(vs, k), queries |-> <<k>>]
    ELSE [docs |-> SelectSeq(Prefix(similarity_search(vs, k * StatusOversample), k),
                             LAMBDA doc : doc.rfp_status = rfp_status),
          queries |-> <<k * StatusOversample>>]

\* retrieve_similar_chunks_with_filter: [docs, queries issued].
retrieve_similar_chunks_with_filter(vs, k, rfp_status) ==
    IF rfp_status = None
    THEN [docs |-> similarity_search(vs, k), queries |-> <<k>>]
    ELSE LET docs == similarity_search(vs, k * StatusOversample)
             filtered_docs ==
                 SelectSeq(docs, LAMBDA doc : doc.rfp_status = rfp_status)
         IN [docs |-> Prefix(filtered_docs, k),
             queries |-> <<k * StatusOversample>>]

\* The category search asking the index again, for everything, when the
\* oversample gave fewer than k matches.
retrieve_with_requery(vs, k, rfp_status, doc_category) ==
    LET Keep(doc) == /\ rfp_status # None => doc.rfp_status = rfp_status
                     /\ doc_category # None => doc.doc_category = doc_category
        first == SelectSeq(similarity_search(vs, k * CategoryOversample), Keep)
    IN IF Len(first) >= k
       THEN [docs |-> Prefix(first, k), queries |-> <<k * CategoryOversample>>]
       ELSE [docs |-> Prefix(SelectSeq(similarity_search(vs, Len(vs)), Keep), k),
             queries |-> <<k * CategoryOversample, Len(vs)>>]

\* retrieve_similar_chunks_with_category_filter: [docs, queries issued].
retrieve_similar_chunks_with_category_filter(vs, k, rfp_status, doc_category) ==
    LET docs == similarity_search(vs, k * CategoryOversample)
        by_status ==
            IF rfp_status # None
            THEN SelectSeq(docs, LAMBDA doc : doc.rfp_status = rfp_status)
            ELSE docs
        filtered_docs ==
            IF doc_category # None
            THEN SelectSeq(by_status, LAMBDA doc : doc.doc_category = doc_category)
            ELSE by_status
    IN [docs |-> Prefix(filtered_docs, k),
        queries |-> <<k * CategoryOversample>>]

NoCall == [fn |-> "none", k |-> 0, rfp_status |-> None, doc_category |-> None]

\* A caller runs retrieve_similar_chunks_with_filter(vectorstore, query, k, S).
RetrieveWithFilter ==
    \E k \in 1..MaxK, st \in RfpStatuses \cup {None} :
        LET r == retrieve_similar_chunks_with_filter(vectorstore, k, st)
        IN /\ call' = [fn |-> "status", k |-> k, rfp_status |-> st,
                       doc_category |-> None]
           /\ results' = r.docs
           /\ nnQueries' = r.queries
           /\ UNCHANGED vectorstore
           /\ UNCHANGED searchFrame

\* A caller runs retrieve_similar_chunks_with_category_filter(vectorstore,
\* query, k, S, C).
RetrieveWithCategoryFilter ==
    \E k \in 1..MaxK, st \in RfpStatuses \cup {None},
       cat \in DocCategories \cup {None} :
        LET r == retrieve_similar_chunks_with_category_filter(vectorstore, k, st, cat)
        IN /\ call' = [fn |-> "category", k |-> k, rfp_status |-> st,
                       doc_category |-> cat]
           /\ results' = r.docs
           /\ nnQueries' = r.queries
           /\ UNCHANGED vectorstore
           /\ UNCHANGED searchFrame

SearchNext == RetrieveWithFilter \/ RetrieveWithCategoryFilter

----------------------------------------------------------------------------
\* Text.  A text is a sequence of tokens; the length of a text is the sum of
\* the lengths of its tokens.  A marker token is one line "--- Page k ---".
Marker(k) == [kind |-> "marker", n |-> k]
Body(n) == [kind |-> "body", n |-> n]       \* n characters, none of them blank
Blank(n) == [kind |-> "blank", n |-> n]     \* n characters of whitespace
MarkerLen == 14

TokenLen(t) == IF t.kind = "marker" THEN MarkerLen ELSE t.n

RECURSIVE TextLen(_)
TextLen(t) == IF t = <<>> THEN 0 ELSE TokenLen(Head(t)) + TextLen(Tail(t))

\* str.strip(): the text without its leading and trailing whitespace.
RECURSIVE LStrip(_)
LStrip(t) ==
    IF t = <<>> THEN <<>>
    ELSE IF Head(t).kind = "blank" THEN LStrip(Tail(t)) ELSE t
RECURSIVE RStrip(_)
RStrip(t) ==
    IF t = <<>> THEN <<>>
    ELSE IF t[Len(t)].kind = "blank" THEN RStrip(SubSeq(t, 1, Len(t) - 1)) ELSE t
strip(t) == RStrip(LStrip(t))

\* sep.join(parts)
RECURSIVE join(_, _)
join(sep, parts) ==
    IF parts = <<>> THEN <<>>
    ELSE IF Len(parts) = 1 THEN parts[1]
    ELSE parts[1] \o sep \o join(sep, Tail(parts))

----------------------------------------------------------------------------
\* A PDF file.  readable: PyPDF2 can open it.  renderable: pdf2image can turn
\* it into page images.  Each page has the text of its text layer (native),
\* whether extracting that text raises, and what the vision model answers
\* for the page image (vlm_ok: the request succeeds; vlm_text: its answer).
Page(native, raises, vlm_ok, vlm_text) ==
    [native |-> native, raises |-> raises, vlm_ok |-> vlm_ok, vlm_text |-> vlm_text]
Pdf(readable, renderable, pages) ==
    [readable |-> readable, renderable |-> renderable, pages |-> pages]
NoPdf == Pdf(TRUE, TRUE, <<>>)

\* Text layers drawn for the classifier: empty, whitespace only, 33 and 34
\* characters with and without surrounding whitespace, and a full page.
NativeTexts ==
    { <<>>, <<Blank(3)>>, <<Body(33)>>, <<Blank(2), Body(33), Blank(1)>>,
      <<Body(34)>>, <<Body(100)>>, <<Body(1600)>> }

ClassifierPages ==
    {Page(t, FALSE, TRUE, <<>>) : t \in NativeTexts} \cup {Page(<<>>, TRUE, TRUE, <<>>)}

\* The PDFs of n pages handed to the classifier.
ClassifierPdfs(n) ==
    {Pdf(r, TRUE, ps) : r \in BOOLEAN, ps \in [1..n -> ClassifierPages]}

\* The classifier's limits.
PagesChecked == 3
ScannedThreshold == 100

\* The body of the try block of is_pdf_scanned: [error, total], reading the
\* first n pages.
RECURSIVE SumPages(_, _)
SumPages(pages, n) ==
    IF n = 0 THEN [error |-> FALSE, total |-> 0]
    ELSE LET before == SumPages(pages, n - 1)
         IN IF before.error \/ pages[n].raises
            THEN [error |-> TRUE, total |-> 0]
            ELSE [error |-> FALSE,
                  total |-> before.total + TextLen(strip(pages[n].native))]

\* The classifier answering "scanned" when reading the file fails.
is_pdf_scanned_fail_closed(f) ==
    IF ~f.readable THEN TRUE
    ELSE LET r == SumPages(f.pages, Min(PagesChecked, Len(f.pages)))
         IN IF r.error THEN TRUE ELSE r.total < ScannedThreshold

\* The classifier with "at most 100 characters" for "fewer than 100".
is_pdf_scanned_inclusive(f) ==
    IF ~f.readable THEN FALSE
    ELSE LET r == SumPages(f.pages, Min(PagesChecked, Len(f.pages)))
         IN IF r.error THEN FALSE ELSE r.total <= ScannedThreshold

\* is_pdf_scanned(pdf_path)
is_pdf_scanned(f) ==
    IF ~f.readable THEN FALSE
    ELSE LET max_pages_to_check == Min(PagesChecked, Len(f.pages))
             r == SumPages(f.pages, max_pages_to_check)
         IN IF r.error THEN FALSE ELSE r.total < ScannedThreshold

\* A caller runs is_pdf_scanned(pdf).
Classify ==
    /\ scanned' = <<is_pdf_scanned(pdf)>>
    /\ UNCHANGED pdf
    /\ UNCHANGED classifyFrame

ClassifyNext == Classify

----------------------------------------------------------------------------
\* extract_text_from_scanned_pdf(pdf_path, vlm_client), one step per line of
\* its loop.

\* What the vision model may answer for a page: nothing, a line of text, a
\* long text, or a text that itself reads "--- Page 1 ---".
VlmTexts == { <<>>, <<Body(40)>>, <<Body(40), Blank(1), Marker(1)>> }

ScanPages ==
    {Page(<<>>, FALSE, TRUE, t) : t \in VlmTexts} \cup {Page(<<>>, FALSE, FALSE, <<>>)}

\* The scanned PDFs of n pages.
ScanPdfs(n) ==
    {Pdf(TRUE, r, ps) : r \in BOOLEAN, ps \in [1..n -> ScanPages]}

NL == Blank(1)
ParagraphBreak == <<Blank(2)>>

\* The segment numbered from 0, as the loop index is.
PageSegmentFromZero(k, page_text) == <<Marker(k - 1), NL>> \o page_text

\* f"--- Page {i+1} ---\n{page_text}"
PageSegment(k, page_text) == <<Marker(k), NL>> \o page_text

\* convert_from_path(pdf_path, dpi=200); its failure is caught by the except
\* clause of the function, which returns "".
VlmConvert ==
    /\ vlmPc = "idle"
    /\ IF pdf.renderable
       THEN /\ vlmPc' = "loop"
            /\ UNCHANGED extracted
       ELSE /\ vlmPc' = "done"
            /\ extracted' = <<>>
    /\ UNCHANGED <<pdf, pageIdx, extracted_texts, vlmLog>>
    /\ UNCHANGED vlmFrame

\* vlm_client.chat.completions.create(...) is called for page i+1.
VlmRequest ==
    /\ vlmPc = "loop"
    /\ pageIdx < Len(pdf.pages)
    /\ vlmLog' = Append(vlmLog, [ev |-> "request", page |-> pageIdx + 1])
    /\ vlmPc' = "waiting"
    /\ UNCHANGED <<pdf, pageIdx, extracted_texts, extracted>>
    /\ UNCHANGED vlmFrame

\* The call running every page in its own try block: a failed page becomes
\* an empty segment and the loop goes on.
VlmRespondPerPage ==
    /\ vlmPc = "waiting"
    /\ LET page == pdf.pages[pageIdx + 1]
       IN /\ vlmLog' = Append(vlmLog,
                 [ev |-> IF page.vlm_ok THEN "response" ELSE "error",
                  page |-> pageIdx + 1])
          /\ extracted_texts' = Append(extracted_texts,
                 PageSegment(pageIdx + 1, IF page.vlm_ok THEN page.vlm_text ELSE <<>>))
          /\ pageIdx' = pageIdx + 1
          /\ vlmPc' = "loop"
          /\ UNCHANGED <<pdf, extracted>>
    /\ UNCHANGED vlmFrame

\* The call ends: with the answer, whose text is appended behind a page
\* marker, or with an exception, which the except clause of the function
\* turns into the return value "".
VlmRespond ==
    /\ vlmPc = "waiting"
    /\ LET page == pdf.pages[pageIdx + 1]
       IN IF page.vlm_ok
          THEN /\ vlmLog' = Append(vlmLog, [ev |-> "response", page |-> pageIdx + 1])
               /\ extracted_texts' =
                      Append(extracted_texts, PageSegment(pageIdx + 1, page.vlm_text))
               /\ pageIdx' = pageIdx + 1
               /\ vlmPc' = "loop"
               /\ UNCHANGED <<pdf, extracted>>
          ELSE /\ vlmLog' = Append(vlmLog, [ev |-> "error", page |-> pageIdx + 1])
               /\ extracted' = <<>>
               /\ vlmPc' = "done"
               /\ UNCHANGED <<pdf, pageIdx, extracted_texts>>
    /\ UNCHANGED vlmFrame

\* return "\n\n".join(extracted_texts)
VlmReturn ==
    /\ vlmPc = "loop"
    /\ pageIdx = Len(pdf.pages)
    /\ extracted' = join(ParagraphBreak, extracted_texts)
    /\ vlmPc' = "done"
    /\ UNCHANGED <<pdf, pageIdx, extracted_texts, vlmLog>>
    /\ UNCHANGED vlmFrame

VlmNext == VlmConvert \/ VlmRequest \/ VlmRespond \/ VlmReturn


----------------------------------------------------------------------------
\* The ingestion pass: load_and_chunk_documents and what it calls.

\* extract_text_from_scanned_pdf as a function of the file: what the steps
\* VlmConvert .. VlmReturn above return for it.
extract_text_from_scanned_pdf(f) ==
    IF ~f.renderable \/ \E k \in DOMAIN f.pages : ~f.pages[k].vlm_ok
    THEN <<>>
    ELSE join(ParagraphBreak,
              [k \in 1..Len(f.pages) |-> PageSegment(k, f.pages[k].vlm_text)])

\* The four folders and what folder_mapping says of them.
ApprovedRfp == "./approvedRfp/rfp"
ApprovedResponse == "./approvedRfp/ResponseRfp"
RejectedRfp == "./rejectedRfp/rfp"
RejectedResponse == "./rejectedRfp/ResponsRfp"
DefaultFolders == <<ApprovedRfp, ApprovedResponse, RejectedRfp, RejectedResponse>>

folder_mapping(folder_path) ==
    CASE folder_path = ApprovedRfp ->
             [rfp_status |-> "approved", doc_category |-> "rfp"]
      [] folder_path = ApprovedResponse ->
             [rfp_status |-> "approved", doc_category |-> "response"]
      [] folder_path = RejectedRfp ->
             [rfp_status |-> "rejected", doc_category |-> "rfp"]
      [] folder_path = RejectedResponse ->
             [rfp_status |-> "rejected", doc_category |-> "response"]
      [] OTHER -> [rfp_status |-> "unknown", doc_category |-> "unknown"]

\* A file name is a sequence of pieces: a word, a run of digits or ".pdf".
Digits == {"1", "2"}
RfpNames == { <<"rfp", "1", ".pdf">>, <<"RFP", "2", ".pdf">>,
              <<"x", "rfp", "1", ".pdf">> }
ResponseNames == { <<"response", "1", ".pdf">>, <<"notes", ".pdf">> }

\* filename.lower()
lower(filename) ==
    [i \in DOMAIN filename |->
        CASE filename[i] = "RFP" -> "rfp"
          [] filename[i] = "RESPONSE" -> "response"
          [] OTHER -> filename[i]]

\* re.match(pattern, name): the pattern <word>(\d+)\.pdf matched at the
\* start of the name; the digits, or None.
re_match(word, name) ==
    IF Len(name) >= 3 /\ name[1] = word /\ name[2] \in Digits /\ name[3] = ".pdf"
    THEN name[2] ELSE None

\* extract_project_number(filename, doc_type)
extract_project_number(filename, doc_type) ==
    IF doc_type = "rfp" THEN re_match("rfp", lower(filename))
    ELSE IF doc_type = "response" THEN re_match("response", lower(filename))
    ELSE None

\* The PDF files drawn for the pass: a text PDF of a long and a short page,
\* a scanned page the vision model reads, a scanned page it fails on, and a
\* file that no PDF library can open.
LongText == <<Body(1600)>>
TextPdf == Pdf(TRUE, TRUE, <<Page(LongText, FALSE, TRUE, <<>>),
                             Page(<<Body(100), Blank(1)>>, FALSE, TRUE, <<>>)>>)
ScanPdfOk == Pdf(TRUE, TRUE, <<Page(<<>>, FALSE, TRUE, <<Body(40)>>)>>)
ScanPdfFail == Pdf(TRUE, TRUE, <<Page(<<>>, FALSE, FALSE, <<>>)>>)
CorruptPdf == Pdf(FALSE, FALSE, <<>>)
IngestPdfs == {TextPdf, ScanPdfOk, ScanPdfFail, CorruptPdf}

File(folder, name, f) == [folder |-> folder, name |-> name, pdf |-> f]
AllFiles ==
    {File(d, n, f) : d \in {ApprovedRfp, RejectedRfp}, n \in RfpNames, f \in IngestPdfs}
    \cup {File(d, n, f) : d \in {ApprovedResponse, RejectedResponse},
                          n \in ResponseNames, f \in IngestPdfs}

\* A disk: at most MaxFiles files, no two of the same folder and name.
RECURSIVE DisksUpTo(_)
DisksUpTo(n) ==
    IF n = 0 THEN {{}}
    ELSE LET smaller == DisksUpTo(n - 1)
         IN smaller \cup
            {d \cup {f} : d \in smaller,
                          f \in AllFiles}
Disks ==
    {d \in DisksUpTo(MaxFiles) :
        \A a, b \in d : (a.folder = b.folder /\ a.name = b.name) => a = b}

FilesIn(disk, folder) == {f \in disk : f.folder = folder}

\* A set of files as a list, in the order the directory gives them.
RECURSIVE Listing(_)
Listing(files) ==
    IF files = {} THEN <<>>
    ELSE LET f == CHOOSE x \in files : TRUE
         IN <<f>> \o Listing(files \ {f})

\* The None of a mapping entry's 'rfp' and 'response', and of a document
\* without doc_id yet: no uuid is 0.
NoId == 0

\* A document before it has a doc_id.  source is the file the text came
\* from, page its page there (0 for a vision transcript of the whole file).
Document(content, folder, source, page) ==
    [page_content |-> content, source_folder |-> folder, source |-> source,
     page |-> page, rfp_status |-> None, doc_category |-> None,
     project_number |-> None, doc_type |-> None, original_file |-> None,
     doc_id |-> NoId]

\* PyPDFLoader(file).load(): one document per page.
PagesOf(file) ==
    [k \in 1..Len(file.pdf.pages) |->
        Document(file.pdf.pages[k].native, file.folder, file.name, k)]

RECURSIVE LoadAll(_)
LoadAll(files) ==
    IF files = <<>> THEN <<>> ELSE PagesOf(Head(files)) \o LoadAll(Tail(files))

\* PyPDFDirectoryLoader(folder).load(): the pages of every PDF of the folder;
\* it raises when one of them cannot be read (silent_errors is False).
PyPDFDirectoryLoader_load(disk, folder) ==
    IF \E f \in FilesIn(disk, folder) :
           ~f.pdf.readable \/ \E k \in DOMAIN f.pdf.pages : f.pdf.pages[k].raises
    THEN [raised |-> TRUE, docs |-> <<>>]
    ELSE [raised |-> FALSE, docs |-> LoadAll(Listing(FilesIn(disk, folder)))]

\* pdf_file in doc.metadata.get('source', '')
SourceMatches(pdf_file, doc) == Contains(doc.source, pdf_file)

\* process_single_pdf: [raised, docs]; the documents have no doc_id yet.
process_single_pdf(disk, file, doc_category, rfp_status, project_number, client) ==
    LET folder == file.folder
        pdf_file == file.name
        Tag(doc, doc_type) ==
            [doc EXCEPT !.source_folder = folder, !.rfp_status = rfp_status,
                        !.doc_category = doc_category,
                        !.project_number = project_number,
                        !.doc_type = doc_type, !.original_file = pdf_file]
        Native(doc_type) ==
            LET loaded == PyPDFDirectoryLoader_load(disk, folder)
                kept == SelectSeq(loaded.docs, LAMBDA doc : SourceMatches(pdf_file, doc))
            IN [raised |-> loaded.raised,
                docs |-> [i \in DOMAIN kept |-> Tag(kept[i], doc_type)]]
    IN IF is_pdf_scanned(file.pdf)
       THEN IF client = None
            THEN Native("text_fallback")
            ELSE LET extracted_text == extract_text_from_scanned_pdf(file.pdf)
                 IN IF extracted_text # <<>>
                    THEN [raised |-> FALSE,
                          docs |-> <<Tag(Document(extracted_text, folder, pdf_file, 0),
                                         "vlm_extracted")>>]
                    ELSE [raised |-> FALSE, docs |-> <<>>]
       ELSE Native("text_standard")

\* doc.metadata['doc_id'] = str(uuid.uuid4()), for each document in turn.
WithIds(docs, first) == [i \in DOMAIN docs |-> [docs[i] EXCEPT !.doc_id = first + i - 1]]

RegistryEntry(doc) ==
    [file |-> doc.original_file, folder |-> doc.source_folder, type |-> doc.doc_type,
     status |-> doc.rfp_status, category |-> doc.doc_category,
     project_number |-> doc.project_number]

\* The mapping update writing a fresh entry for every document.
MapDocFresh(mapping, doc) ==
    LET fresh == [rfp |-> NoId, response |-> NoId, status |-> doc.rfp_status]
    IN (doc.project_number :>
            (IF doc.doc_category = "rfp" THEN [fresh EXCEPT !.rfp = doc.doc_id]
             ELSE IF doc.doc_category = "response"
                  THEN [fresh EXCEPT !.response = doc.doc_id]
                  ELSE fresh)) @@ mapping

\* The mapping update keeping the id that was registered first.
MapDocKeepFirst(mapping, doc) ==
    LET pn == doc.project_number
        present ==
            IF pn \in DOMAIN mapping THEN mapping
            ELSE (pn :> [rfp |-> NoId, response |-> NoId,
                         status |-> doc.rfp_status]) @@ mapping
    IN IF doc.doc_category = "rfp" /\ present[pn].rfp = NoId
       THEN [present EXCEPT ![pn].rfp = doc.doc_id]
       ELSE IF doc.doc_category = "response" /\ present[pn].response = NoId
            THEN [present EXCEPT ![pn].response = doc.doc_id]
            ELSE present

\* The mapping update of the registration loop for one document.
MapDoc(mapping, doc) ==
    LET pn == doc.project_number
        present ==
            IF pn \in DOMAIN mapping THEN mapping
            ELSE (pn :> [rfp |-> NoId, response |-> NoId,
                         status |-> doc.rfp_status]) @@ mapping
    IN IF doc.doc_category = "rfp"
       THEN [present EXCEPT ![pn].rfp = doc.doc_id]
       ELSE IF doc.doc_category = "response"
            THEN [present EXCEPT ![pn].response = doc.doc_id]
            ELSE present

\* The registration loop entering only the last document of the file.
RegisterLast(reg, docs) ==
    IF docs = <<>> THEN reg
    ELSE [registry |->
              (docs[Len(docs)].doc_id :> RegistryEntry(docs[Len(docs)])) @@ reg.registry,
          mapping |-> MapDoc(reg.mapping, docs[Len(docs)])]

\* The registration loop "for doc in docs" over [registry, mapping].
RECURSIVE Register(_, _)
Register(reg, docs) ==
    IF docs = <<>> THEN reg
    ELSE Register([registry |-> (Head(docs).doc_id :> RegistryEntry(Head(docs)))
                                    @@ reg.registry,
                   mapping |-> MapDoc(reg.mapping, Head(docs))],
                  Tail(docs))

\* RecursiveCharacterTextSplitter(chunk_size=1500, chunk_overlap=200)
ChunkSize == 1500
ChunkOverlap == 200

\* The lengths of the pieces of a text of n characters.
RECURSIVE SplitLengths(_)
SplitLengths(n) ==
    IF n = 0 THEN <<>>
    ELSE IF n <= ChunkSize THEN <<n>>
    ELSE <<ChunkSize>> \o SplitLengths(n - (ChunkSize - ChunkOverlap))

\* The chunks of one document: each piece with a copy of the metadata.
ChunksOf(doc) ==
    LET lens == SplitLengths(TextLen(strip(doc.page_content)))
    IN [i \in DOMAIN lens |->
           [len |-> lens[i], doc_id |-> doc.doc_id, rfp_status |-> doc.rfp_status,
            doc_category |-> doc.doc_category,
            project_number |-> doc.project_number]]

\* splitter.split_documents(all_documents)
RECURSIVE split_documents(_)
split_documents(docs) ==
    IF docs = <<>> THEN <<>> ELSE ChunksOf(Head(docs)) \o split_documents(Tail(docs))

EmptyDict == <<>>

\* json.dump(d, f) writes the members of the dict, key and value; json.load
\* makes a dict of the members it reads.
json_dump(d) == {<<k, d[k]>> : k \in DOMAIN d}
json_load(members) ==
    [k \in {m[1] : m \in members} |-> (CHOOSE m \in members : m[1] = k)[2]]

\* load_document_registry() and load_rfp_response_mapping(): {} when the
\* file does not exist.
load_document_registry ==
    IF disk_registry = <<>> THEN EmptyDict ELSE json_load(disk_registry[1])
load_rfp_response_mapping ==
    IF disk_mapping = <<>> THEN EmptyDict ELSE json_load(disk_mapping[1])

\* print("Paires RFP-Réponse complètes"): the entries with both ids set.
complete_pairs(mapping) ==
    {pn \in DOMAIN mapping : mapping[pn].rfp # NoId /\ mapping[pn].response # NoId}

\* One turn of "for pdf_file in pdf_files": the file is processed and its
\* documents are registered; an exception of process_single_pdf leaves
\* load_and_chunk_documents, which has no handler for it.
IngestFile ==
    /\ ingestPc = "loop"
    /\ folderIdx <= Len(pdf_folders)
    /\ \E file \in FilesIn(fs, pdf_folders[folderIdx]) :
          /\ file.name \notin processed
          /\ LET folder_info == folder_mapping(file.folder)
                 found == extract_project_number(file.name, folder_info.doc_category)
                 project_number == IF found = None THEN "unknown" ELSE found
                 r == process_single_pdf(fs, file, folder_info.doc_category,
                                         folder_info.rfp_status, project_number,
                                         vlm_client)
                 docs == WithIds(r.docs, nextId)
                 reg == Register([registry |-> document_registry,
                                  mapping |-> rfp_response_mapping], docs)
             IN IF r.raised
                THEN /\ ingestPc' = "raised"
                     /\ UNCHANGED <<processed, all_documents, document_registry,
                                    rfp_response_mapping, nextId>>
                ELSE /\ all_documents' = all_documents \o docs
                     /\ document_registry' = reg.registry
                     /\ rfp_response_mapping' = reg.mapping
                     /\ nextId' = nextId + Len(docs)
                     /\ processed' = processed \cup {file.name}
                     /\ UNCHANGED ingestPc
    /\ UNCHANGED <<folderIdx, chunks, disk_registry, disk_mapping>>
    /\ UNCHANGED ingestInputs
    /\ UNCHANGED ingestFrame

\* Every file of the folder is done: "for folder_path in pdf_folders" goes on.
IngestNextFolder ==
    /\ ingestPc = "loop"
    /\ folderIdx <= Len(pdf_folders)
    /\ \A file \in FilesIn(fs, pdf_folders[folderIdx]) : file.name \in processed
    /\ folderIdx' = folderIdx + 1
    /\ processed' = {}
    /\ UNCHANGED <<ingestPc, all_documents, document_registry, rfp_response_mapping,
                   nextId, chunks, disk_registry, disk_mapping>>
    /\ UNCHANGED ingestInputs
    /\ UNCHANGED ingestFrame

\* After the loops: without documents the pass returns [], {}, {} and writes
\* nothing; otherwise it splits the documents, writes both JSON files and
\* returns chunks, document_registry, rfp_response_mapping.
IngestFinish ==
    /\ ingestPc = "loop"
    /\ folderIdx > Len(pdf_folders)
    /\ ingestPc' = "returned"
    /\ IF all_documents = <<>>
       THEN UNCHANGED <<chunks, disk_registry, disk_mapping>>
       ELSE /\ chunks' = split_documents(all_documents)
            /\ disk_registry' = <<json_dump(document_registry)>>
            /\ disk_mapping' = <<json_dump(rfp_response_mapping)>>
    /\ UNCHANGED <<folderIdx, processed, all_documents, document_registry,
                   rfp_response_mapping, nextId>>
    /\ UNCHANGED ingestInputs
    /\ UNCHANGED ingestFrame

IngestNext == IngestFile \/ IngestNextFolder \/ IngestFinish

----------------------------------------------------------------------------
\* Startup over the persisted index: initialize_real_system of the API
\* (backend/main.py) and main of the CLI (backend/muRag_vlm.py).

\* What load_and_chunk_documents and create_faiss_index come to over the
\* source folders: chunks and an index of them; no document at all (the pass
\* returns [], {}, {}); an exception of the pass; documents none of which
\* has text, so that the registries are written and the chunk list is empty
\* (FAISS.from_documents raises on it); chunks whose index cannot be built
\* or saved (create_faiss_index raises).
SourceOutcomes == {"chunks", "empty", "raises", "no_chunks", "index_fails"}

\* The outcomes in which load_and_chunk_documents reached its json.dump of
\* the registries (it had documents) but no index is built from its chunks.
RegistriesOnly == {"no_chunks", "index_fails"}

\* ./faiss_index as a directory holding generation gen of the index, whose
\* files deserialize or not; NoIndex when the directory does not exist.
Index(ok, gen) == [exists |-> TRUE, ok |-> ok, gen |-> gen]
NoIndex == [exists |-> FALSE, ok |-> FALSE, gen |-> 0]
ThisGen == restarts + 1

\* Path("./faiss_index").exists() / os.path.exists(faiss_path)
ApiCheckIndex ==
    /\ entry = "api" /\ startPc = "start"
    /\ IF faiss_index.exists
       THEN startPc' = "load" /\ UNCHANGED console
       ELSE startPc' = "registries" /\ console' = console \cup {"No existing vector store found"}
    /\ UNCHANGED <<entry, faiss_index, registry_files, sources, loaded_index, restarts>>
    /\ UNCHANGED startFrame

\* The inner try of initialize_real_system: FAISS.load_local, and in its
\* except clause the rebuild: load_and_chunk_documents(), create_faiss_index
\* and the two json.dump.  Whatever the rebuild raises is caught by the next
\* try, which prints and goes on without a vector store.
ApiLoad ==
    /\ entry = "api" /\ startPc = "load"
    /\ startPc' = "registries"
    /\ IF faiss_index.ok
       THEN /\ loaded_index' = <<faiss_index.gen>>
            /\ console' = console \cup {"Existing vector store loaded"}
            /\ UNCHANGED <<faiss_index, registry_files>>
       ELSE IF sources = "chunks"
       THEN /\ faiss_index' = Index(TRUE, ThisGen)
            /\ registry_files' = <<ThisGen>>
            /\ loaded_index' = <<ThisGen>>
            /\ console' = console \cup {"Corrupted FAISS index detected",
                                        "Rebuilding vector store from documents",
                                        "Vector store rebuilt and saved"}
       ELSE /\ console' = console \cup {"Corrupted FAISS index detected",
                                        "Rebuilding vector store from documents",
                                        "Could not initialize vector store"}
            /\ registry_files' = IF sources \in RegistriesOnly THEN <<ThisGen>>
                                 ELSE registry_files
            /\ UNCHANGED <<faiss_index, loaded_index>>
    /\ UNCHANGED <<entry, sources, restarts>>
    /\ UNCHANGED startFrame

\* The last try of initialize_real_system reads the registry files; the
\* function returns True and the API serves.
ApiLoadRegistries ==
    /\ entry = "api" /\ startPc = "registries"
    /\ startPc' = "serving"
    /\ console' = console \cup {"Loaded documents and mappings"}
    /\ UNCHANGED <<entry, faiss_index, registry_files, sources, loaded_index, restarts>>
    /\ UNCHANGED startFrame

\* main, "if not os.path.exists(faiss_path)".
CliCheckIndex ==
    /\ entry = "cli" /\ startPc = "start"
    /\ startPc' = IF ~faiss_index.exists THEN "create" ELSE "load"
    /\ UNCHANGED <<entry, faiss_index, registry_files, sources, loaded_index,
                   console, restarts>>
    /\ UNCHANGED startFrame

\* main, creation mode: ingestion and create_faiss_index inside one try.
CliCreate ==
    /\ entry = "cli" /\ startPc = "create"
    /\ CASE sources = "chunks" ->
              /\ faiss_index' = Index(TRUE, ThisGen)
              /\ registry_files' = <<ThisGen>>
              /\ loaded_index' = <<ThisGen>>
              /\ console' = console \cup {"Index FAISS créé et sauvegardé"}
              /\ startPc' = "serving"
         [] sources = "empty" ->
              /\ console' = console \cup {"Aucun chunk créé"}
              /\ startPc' = "exited"
              /\ UNCHANGED <<faiss_index, registry_files, loaded_index>>
         [] sources = "raises" ->
              /\ console' = console \cup {"Erreur création index"}
              /\ startPc' = "exited"
              /\ UNCHANGED <<faiss_index, registry_files, loaded_index>>
         [] sources = "no_chunks" ->
              /\ registry_files' = <<ThisGen>>
              /\ console' = console \cup {"Aucun chunk créé"}
              /\ startPc' = "exited"
              /\ UNCHANGED <<faiss_index, loaded_index>>
         [] sources = "index_fails" ->
              /\ registry_files' = <<ThisGen>>
              /\ console' = console \cup {"Erreur création index"}
              /\ startPc' = "exited"
              /\ UNCHANGED <<faiss_index, loaded_index>>
    /\ UNCHANGED <<entry, sources, restarts>>
    /\ UNCHANGED startFrame

\* main, loading mode: FAISS.load_local and the registries inside one try;
\* its except clause prints the error and the advice to delete the index
\* directory, and returns.
CliLoad ==
    /\ entry = "cli" /\ startPc = "load"
    /\ IF faiss_index.ok
       THEN /\ loaded_index' = <<faiss_index.gen>>
            /\ console' = console \cup {"Index et registres chargés"}
            /\ startPc' = "serving"
       ELSE /\ console' = console \cup {"Erreur chargement index",
                                        "Solution: Supprimez ./faiss_index"}
            /\ startPc' = "exited"
            /\ UNCHANGED loaded_index
    /\ UNCHANGED <<entry, faiss_index, registry_files, sources, restarts>>
    /\ UNCHANGED startFrame

\* Between two runs the index files get damaged on disk.
DamageIndex ==
    /\ startPc \in {"serving", "exited"}
    /\ faiss_index.exists /\ faiss_index.ok
    /\ faiss_index' = Index(FALSE, faiss_index.gen)
    /\ UNCHANGED <<entry, startPc, registry_files, sources, loaded_index, console,
                   restarts>>
    /\ UNCHANGED startFrame

\* The process ends and one of the two programs is started again.
Restart ==
    /\ startPc \in {"serving", "exited"}
    /\ restarts < MaxRestarts
    /\ restarts' = restarts + 1
    /\ entry' \in {"api", "cli"}
    /\ startPc' = "start"
    /\ loaded_index' = <<>>
    /\ console' = {}
    /\ UNCHANGED <<faiss_index, registry_files, sources>>
    /\ UNCHANGED startFrame

StartupNext ==
    \/ ApiCheckIndex \/ ApiLoad \/ ApiLoadRegistries
    \/ CliCheckIndex \/ CliCreate \/ CliLoad
    \/ DamageIndex \/ Restart

----------------------------------------------------------------------------
\* The faithfulness judge and the analysis loop of the CLI.

\* Scores and thresholds are hundredths: 70 stands for 0.7.
DefaultThreshold == 70
Thresholds == {50, 70, 90}
Scores == {50, 69, 70, 71, 90}

\* What faith_metric.measure comes to: a score, or an exception.
JudgeOutcomes ==
    {[ok |-> TRUE, score |-> sc] : sc \in Scores} \cup {[ok |-> FALSE, score |-> 0]}

Reason(text, n) == [text |-> text, score |-> n]
EvalRecord(score, reason, needs_enhancement, status) ==
    [score |-> score, reason |-> reason, needs_enhancement |-> needs_enhancement,
     status |-> status]

\* The module globals an evaluation reads and writes.
JudgeGlobals(score, reason, threshold) ==
    [last_evaluation_score |-> score, last_evaluation_reason |-> reason,
     threshold |-> threshold]

\* assess_faithfulness flagging a score equal to the threshold as well.
assess_faithfulness_inclusive(configured, judge, threshold, globals) ==
    IF ~configured
    THEN [result |-> EvalRecord(<<>>, Reason("Judge Pipeline non disponible", 0),
                                FALSE, "disabled"),
          globals |-> globals, measured |-> FALSE]
    ELSE IF ~judge.ok
    THEN [result |-> EvalRecord(<<>>, Reason("Erreur lors de l'évaluation", 0),
                                FALSE, "error"),
          globals |-> [globals EXCEPT !.threshold = threshold], measured |-> TRUE]
    ELSE [result |-> EvalRecord(<<judge.score>>, Reason("faith_metric.reason", judge.score),
                                judge.score <= threshold, "evaluated"),
          globals |-> JudgeGlobals(<<judge.score>>,
                                   <<Reason("faith_metric.reason", judge.score)>>,
                                   threshold),
          measured |-> TRUE]

\* assess_faithfulness without its try block: the judge's exception leaves it.
assess_faithfulness_unguarded(configured, judge, threshold, globals) ==
    IF ~configured
    THEN [result |-> EvalRecord(<<>>, Reason("Judge Pipeline non disponible", 0),
                                FALSE, "disabled"),
          globals |-> globals, measured |-> FALSE]
    ELSE IF ~judge.ok
    THEN [result |-> EvalRecord(<<>>, Reason("exception", 0), FALSE, "raised"),
          globals |-> [globals EXCEPT !.threshold = threshold], measured |-> TRUE]
    ELSE [result |-> EvalRecord(<<judge.score>>, Reason("faith_metric.reason", judge.score),
                                judge.score < threshold, "evaluated"),
          globals |-> JudgeGlobals(<<judge.score>>,
                                   <<Reason("faith_metric.reason", judge.score)>>,
                                   threshold),
          measured |-> TRUE]

\* assess_faithfulness clearing the stored score and reason when the judge
\* call fails.
assess_faithfulness_forgetful(configured, judge, threshold, globals) ==
    IF ~configured
    THEN [result |-> EvalRecord(<<>>, Reason("Judge Pipeline non disponible", 0),
                                FALSE, "disabled"),
          globals |-> globals, measured |-> FALSE]
    ELSE IF ~judge.ok
    THEN [result |-> EvalRecord(<<>>, Reason("Erreur lors de l'évaluation", 0),
                                FALSE, "error"),
          globals |-> JudgeGlobals(<<>>, <<>>, threshold), measured |-> TRUE]
    ELSE [result |-> EvalRecord(<<judge.score>>, Reason("faith_metric.reason", judge.score),
                                judge.score < threshold, "evaluated"),
          globals |-> JudgeGlobals(<<judge.score>>,
                                   <<Reason("faith_metric.reason", judge.score)>>,
                                   threshold),
          measured |-> TRUE]

\* assess_faithfulness(question, answer, retrieved_docs, threshold): the
\* record it returns, the globals it leaves and whether the judge was run.
assess_faithfulness(configured, judge, threshold, globals) ==
    IF ~configured
    THEN [result |-> EvalRecord(<<>>, Reason("Judge Pipeline non disponible", 0),
                                FALSE, "disabled"),
          globals |-> globals, measured |-> FALSE]
    ELSE IF ~judge.ok
    THEN [result |-> EvalRecord(<<>>, Reason("Erreur lors de l'évaluation", 0),
                                FALSE, "error"),
          globals |-> [globals EXCEPT !.threshold = threshold], measured |-> TRUE]
    ELSE [result |-> EvalRecord(<<judge.score>>, Reason("faith_metric.reason", judge.score),
                                judge.score < threshold, "evaluated"),
          globals |-> JudgeGlobals(<<judge.score>>,
                                   <<Reason("faith_metric.reason", judge.score)>>,
                                   threshold),
          measured |-> TRUE]

\* evaluate_faithfulness_after_generation(question, answer, retrieved_docs)
evaluate_faithfulness_after_generation(answer, retrieved_docs, configured, judge, globals) ==
    IF answer = <<>> \/ retrieved_docs = <<>>
    THEN [result |-> EvalRecord(<<>>, Reason("Données insuffisantes pour évaluation", 0),
                                FALSE, "insufficient_data"),
          globals |-> globals, measured |-> FALSE, assessed |-> FALSE]
    ELSE LET a == assess_faithfulness(configured, judge, DefaultThreshold, globals)
         IN [result |-> a.result, globals |-> a.globals, measured |-> a.measured,
             assessed |-> TRUE]

\* What the evaluator is handed: a chunk as retrieved, the excerpt
\* page_content[:200] + "..." of a chunk, or the fixed sentence main passes
\* when it has no excerpt.
FullDoc(doc) == [kind |-> "chunk", rank |-> doc.rank]
Excerpt(doc) == [kind |-> "excerpt", rank |-> doc.rank]
Placeholder == [kind |-> "placeholder", rank |-> 0]

\* The defaults and slices of the analysis.
PatternsK == 10
PatternsKept == 3
PatternsEvaluated == 2

\* analyze_rfp_patterns(vectorstore, category)
analyze_rfp_patterns(vs) ==
    LET approved_docs == retrieve_similar_chunks_with_filter(vs, PatternsK, "approved").docs
        rejected_docs == retrieve_similar_chunks_with_filter(vs, PatternsK, "rejected").docs
        kept == Prefix(approved_docs, PatternsKept)
    IN [approved_patterns |-> [i \in DOMAIN kept |-> Excerpt(kept[i])],
        retrieved |-> approved_docs \o rejected_docs]

StepNames == <<"step1_patterns_recurrents", "step2_historique_forces_faiblesses",
               "step3_facteurs_victoire_defaite", "step4_comparaison_reussis_rejetes">>
NoFailure == 0
SynthesisStep == Len(StepNames) + 1
FailurePoints == NoFailure..SynthesisStep

\* Answers of the LLM: the empty string, or a text proper to the request.
Answer(r) == <<r>>
NoAnalysis ==
    [request |-> 0, framework_steps |-> <<>>, approved_patterns |-> <<>>,
     retrieved |-> <<>>, step_errors |-> {}, synthesis |-> <<>>, error |-> FALSE]

\* The two LLM calls made inside a function that catches their exception
\* and returns a fallback dict with an "error" entry of its own:
\* analyze_strategic_patterns_with_llm in step 1 and
\* analyze_competitive_intelligence in step 4.
AbsorbedCalls == {"smart_patterns", "competitive_intelligence"}
StepOfCall(c) == IF c = "smart_patterns" THEN 1 ELSE Len(StepNames)

\* The step that raises recorded as completed.
execute_complete_rfp_analysis_late(vs, r, fail_at, llm_down, answer) ==
    LET completed == IF fail_at = NoFailure THEN Len(StepNames)
                     ELSE Min(fail_at, Len(StepNames))
        basic_patterns == analyze_rfp_patterns(vs)
    IN [request |-> r,
        framework_steps |-> Prefix(StepNames, completed),
        approved_patterns |->
            IF completed >= 1 THEN basic_patterns.approved_patterns ELSE <<>>,
        retrieved |-> IF completed >= 1 THEN basic_patterns.retrieved ELSE <<>>,
        step_errors |-> {c \in llm_down : StepOfCall(c) <= completed},
        synthesis |-> IF fail_at = NoFailure THEN <<answer>> ELSE <<>>,
        error |-> fail_at # NoFailure]

\* execute_complete_rfp_analysis(vectorstore, llm_client, domain) for request
\* r, when the step fail_at raises into the try of the function (NoFailure:
\* none does), the LLM calls of llm_down fail inside the functions that
\* catch them, and the LLM answers the synthesis prompt with answer.
execute_complete_rfp_analysis(vs, r, fail_at, llm_down, answer) ==
    LET completed == IF fail_at = NoFailure THEN Len(StepNames) ELSE fail_at - 1
        basic_patterns == analyze_rfp_patterns(vs)
    IN [request |-> r,
        framework_steps |-> Prefix(StepNames, completed),
        approved_patterns |->
            IF completed >= 1 THEN basic_patterns.approved_patterns ELSE <<>>,
        retrieved |-> IF completed >= 1 THEN basic_patterns.retrieved ELSE <<>>,
        step_errors |-> {c \in llm_down : StepOfCall(c) <= completed},
        synthesis |-> IF fail_at = NoFailure THEN <<answer>> ELSE <<>>,
        error |-> fail_at # NoFailure]

\* A call of execute_complete_rfp_analysis over the index, with what fails
\* during it drawn.
CallAnalysis ==
    /\ \E r \in 1..MaxRequests, fail_at \in FailurePoints,
          llm_down \in SUBSET AbsorbedCalls, answer \in {<<>>, Answer(1)} :
          /\ analysisCall' = <<[request |-> r, fail_at |-> fail_at,
                                llm_down |-> llm_down]>>
          /\ analysisReturn' =
                 <<execute_complete_rfp_analysis(vectorstore, r, fail_at, llm_down,
                                                 answer)>>
    /\ UNCHANGED analysisFrame

AnalysisNext == CallAnalysis

\* The loop evaluating the first answer generated in the session.
FirstGeneratedAnswer(analysis, log) ==
    LET gens == SelectSeq(log, LAMBDA e : e.ev = "generated")
    IN IF gens = <<>> THEN analysis.synthesis[1] ELSE gens[1].answer

\* answer=complete_analysis["synthesis"]["actionnable_insights"]
AnswerToEvaluate(analysis, log) == analysis.synthesis[1]

\* docs_for_evaluation, and the retrieved_docs argument made of it.
DocsForEvaluation(analysis) ==
    LET docs_for_evaluation ==
            IF "step1_patterns_recurrents" \in {analysis.framework_steps[i] :
                                                   i \in DOMAIN analysis.framework_steps}
            THEN Prefix(analysis.approved_patterns, PatternsEvaluated)
            ELSE <<>>
    IN IF docs_for_evaluation # <<>> THEN docs_for_evaluation ELSE <<Placeholder>>

NoAssessCall ==
    [configured |-> FALSE, judge |-> [ok |-> FALSE, score |-> 0],
     threshold |-> DefaultThreshold]
AssessCallOf(configured, judge, threshold) ==
    [configured |-> configured, judge |-> judge, threshold |-> threshold]
CurrentGlobals ==
    JudgeGlobals(last_evaluation_score, last_evaluation_reason, metric_threshold)

\* main: input() returns a domain to analyse.
EnterDomain ==
    /\ loopPc = "prompt"
    /\ request < MaxRequests
    /\ request' = request + 1
    /\ loopPc' = "analysis"
    /\ UNCHANGED <<judge_configured, metric_threshold, complete_analysis,
                   evaluation_result, analysisLog, assessCall, assessResult,
                   last_evaluation_score, last_evaluation_reason>>
    /\ UNCHANGED judgeFrame

\* main: input() returns "quit".
Quit ==
    /\ loopPc = "prompt"
    /\ loopPc' = "done"
    /\ UNCHANGED <<judge_configured, metric_threshold, request, complete_analysis,
                   evaluation_result, analysisLog, assessCall, assessResult,
                   last_evaluation_score, last_evaluation_reason>>
    /\ UNCHANGED judgeFrame

\* main: complete_analysis = execute_complete_rfp_analysis(vectorstore, llm,
\* domain); the log keeps the generation of the synthesis answer.
ExecuteAnalysis ==
    /\ loopPc = "analysis"
    /\ \E fail_at \in FailurePoints, llm_down \in SUBSET AbsorbedCalls,
          answer \in {<<>>, Answer(request)} :
          LET analysis == execute_complete_rfp_analysis(vectorstore, request,
                                                        fail_at, llm_down, answer)
          IN /\ complete_analysis' = analysis
             /\ analysisLog' =
                   IF analysis.synthesis # <<>>
                   THEN Append(analysisLog,
                               [ev |-> "generated", request |-> request,
                                answer |-> answer, docs |-> <<>>])
                   ELSE analysisLog
    /\ loopPc' = "report"
    /\ UNCHANGED <<judge_configured, metric_threshold, request, evaluation_result,
                   assessCall, assessResult, last_evaluation_score,
                   last_evaluation_reason>>
    /\ UNCHANGED judgeFrame

\* main: "if judge_llm and 'synthesis' in complete_analysis ...": the
\* evaluation of the synthesis answer, then back to the prompt.
EvaluateAnswer ==
    /\ loopPc = "report"
    /\ loopPc' = "prompt"
    /\ IF judge_configured /\ complete_analysis.synthesis # <<>>
       THEN \E judge \in JudgeOutcomes :
               LET answer == AnswerToEvaluate(complete_analysis, analysisLog)
                   retrieved_docs == DocsForEvaluation(complete_analysis)
                   e == evaluate_faithfulness_after_generation(
                            answer, retrieved_docs, judge_configured, judge,
                            CurrentGlobals)
               IN /\ evaluation_result' = <<e.result>>
                  /\ last_evaluation_score' = e.globals.last_evaluation_score
                  /\ last_evaluation_reason' = e.globals.last_evaluation_reason
                  /\ metric_threshold' = e.globals.threshold
                  /\ IF e.assessed
                     THEN /\ assessCall' = AssessCallOf(judge_configured, judge,
                                                        DefaultThreshold)
                          /\ assessResult' = <<e.result>>
                     ELSE UNCHANGED <<assessCall, assessResult>>
                  /\ analysisLog' =
                        IF e.measured
                        THEN Append(analysisLog,
                                    [ev |-> "judged", request |-> request,
                                     answer |-> answer, docs |-> retrieved_docs])
                        ELSE analysisLog
       ELSE UNCHANGED <<evaluation_result, last_evaluation_score,
                        last_evaluation_reason, metric_threshold, assessCall,
                        assessResult, analysisLog>>
    /\ UNCHANGED <<judge_configured, request, complete_analysis>>
    /\ UNCHANGED judgeFrame

\* A caller of the module runs assess_faithfulness with a threshold of its
\* own, outside the analysis loop.
AssessFaithfulness ==
    /\ loopPc = "idle"
    /\ \E judge \in JudgeOutcomes, threshold \in Thresholds :
          LET a == assess_faithfulness(judge_configured, judge, threshold,
                                       CurrentGlobals)
          IN /\ assessCall' = AssessCallOf(judge_configured, judge, threshold)
             /\ assessResult' = <<a.result>>
             /\ last_evaluation_score' = a.globals.last_evaluation_score
             /\ last_evaluation_reason' = a.globals.last_evaluation_reason
             /\ metric_threshold' = a.globals.threshold
    /\ UNCHANGED <<judge_configured, loopPc, request, complete_analysis,
                   evaluation_result, analysisLog>>
    /\ UNCHANGED judgeFrame

AssessNext == AssessFaithfulness

\* A call of evaluate_faithfulness_after_generation from outside the loop, on
\* an answer and a document list that are empty or not.
EvaluateAfterGeneration ==
    /\ loopPc = "idle"
    /\ \E answer \in {<<>>, Answer(1)}, retrieved_docs \in {<<>>, <<Placeholder>>},
          judge \in JudgeOutcomes :
          LET e == evaluate_faithfulness_after_generation(
                       answer, retrieved_docs, judge_configured, judge, CurrentGlobals)
          IN /\ assessCall' = IF e.assessed
                              THEN AssessCallOf(judge_configured, judge, DefaultThreshold)
                              ELSE assessCall
             /\ assessResult' = <<e.result>>
             /\ last_evaluation_score' = e.globals.last_evaluation_score
             /\ last_evaluation_reason' = e.globals.last_evaluation_reason
             /\ metric_threshold' = e.globals.threshold
    /\ UNCHANGED <<judge_configured, loopPc, request, complete_analysis,
                   evaluation_result, analysisLog>>
    /\ UNCHANGED judgeFrame

EvaluateNext == AssessFaithfulness \/ EvaluateAfterGeneration

JudgeNext == EnterDomain \/ Quit \/ ExecuteAnalysis \/ EvaluateAnswer

----------------------------------------------------------------------------
\* The vector index: create_faiss_index, FAISS.load_local, similarity search.

\* embedding_model maps a text to a vector; here a point of a line, so that
\* two texts can lie at the same distance of a query.
Embeddings == 0..2
IndexedChunk(n, v) == [text |-> n, embedding |-> v]
ChunkLists ==
    UNION {{[i \in 1..n |-> IndexedChunk(i, e[i])] : e \in [1..n -> Embeddings]} :
              n \in 1..MaxIndexChunks}

\* A FAISS vector store: the flat index of vectors in insertion order, the
\* dict from index position to docstore id, and the docstore.
FaissStore(vectors, index_to_docstore_id, docstore) ==
    [vectors |-> vectors, index_to_docstore_id |-> index_to_docstore_id,
     docstore |-> docstore]

\* FAISS.from_documents(chunks, embedding_model), ids being the uuids drawn
\* for the chunks.
from_documents(docs, ids) ==
    FaissStore([i \in DOMAIN docs |-> docs[i].embedding],
               [i \in DOMAIN docs |-> ids[i]],
               [id \in {ids[i] : i \in DOMAIN docs} |->
                   docs[CHOOSE i \in DOMAIN docs : ids[i] = id]])

\* vectorstore.save_local(faiss_path): index.faiss holds the vectors with
\* their count, index.pkl the pickled docstore and index_to_docstore_id.
pickle_dump(d) == {<<k, d[k]>> : k \in DOMAIN d}
pickle_load(members) ==
    [k \in {m[1] : m \in members} |-> (CHOOSE m \in members : m[1] = k)[2]]
save_local(store) ==
    [index_faiss |-> [ntotal |-> Len(store.vectors), xb |-> store.vectors],
     index_pkl |-> [docstore |-> pickle_dump(store.docstore),
                    index_to_docstore_id |-> pickle_dump(store.index_to_docstore_id)]]

\* A sequence of the members of a set of positions, ascending.
RECURSIVE Ascending(_)
Ascending(positions) ==
    IF positions = {} THEN <<>>
    ELSE LET least == CHOOSE i \in positions : \A j \in positions : i <= j
         IN <<least>> \o Ascending(positions \ {least})

\* A loader numbering the vectors after the order of the docstore ids
\* instead of reading index_to_docstore_id.
load_local_docstore_order(files) ==
    LET docstore == pickle_load(files.index_pkl.docstore)
    IN FaissStore(SubSeq(files.index_faiss.xb, 1, files.index_faiss.ntotal),
                  Ascending(DOMAIN docstore), docstore)

\* FAISS.load_local(faiss_path, embedding_model, ...)
load_local(files) ==
    FaissStore(SubSeq(files.index_faiss.xb, 1, files.index_faiss.ntotal),
               pickle_load(files.index_pkl.index_to_docstore_id),
               pickle_load(files.index_pkl.docstore))

Distance(a, b) == IF a < b THEN b - a ELSE a - b

\* The position of the i-th vector among the neighbours of q: nearest
\* first, vectors at the same distance in insertion order.
NeighbourRank(store, q, i) ==
    1 + Cardinality({j \in DOMAIN store.vectors :
                        \/ Distance(store.vectors[j], q) < Distance(store.vectors[i], q)
                        \/ /\ Distance(store.vectors[j], q) = Distance(store.vectors[i], q)
                           /\ j < i})

\* vectorstore.similarity_search(query, k), q being the embedding of query.
store_similarity_search(store, q, k) ==
    [r \in 1..Min(k, Len(store.vectors)) |->
        LET i == CHOOSE j \in DOMAIN store.vectors : NeighbourRank(store, q, j) = r
        IN store.docstore[store.index_to_docstore_id[i]]]

\* create_faiss_index(chunks, faiss_path): build, save, return.
CreateIndex ==
    /\ built_index = <<>>
    /\ \E docs \in ChunkLists :
          \E ids \in Permutations(1..Len(docs)) :
             LET store == from_documents(docs, ids)
             IN /\ built_index' = <<store>>
                /\ index_dir' = <<save_local(store)>>
    /\ UNCHANGED <<loaded_store, index_query, fresh_results, loaded_results>>
    /\ UNCHANGED indexFrame

\* main, loading mode: vectorstore = FAISS.load_local(faiss_path, ...).
LoadIndex ==
    /\ index_dir # <<>>
    /\ loaded_store = <<>>
    /\ loaded_store' = <<load_local(index_dir[1])>>
    /\ UNCHANGED <<built_index, index_dir, index_query, fresh_results, loaded_results>>
    /\ UNCHANGED indexFrame

\* The same query is put to the index as built and to the index as loaded.
SearchBoth ==
    /\ built_index # <<>> /\ loaded_store # <<>>
    /\ \E q \in Embeddings, k \in 1..MaxK :
          /\ index_query' = <<[q |-> q, k |-> k]>>
          /\ fresh_results' = store_similarity_search(built_index[1], q, k)
          /\ loaded_results' = store_similarity_search(loaded_store[1], q, k)
    /\ UNCHANGED <<built_index, index_dir, loaded_store>>
    /\ UNCHANGED indexFrame

IndexNext == CreateIndex \/ LoadIndex \/ SearchBoth

----------------------------------------------------------------------------
\* promptEnhancer.py: the names it imports from muRag_vlm and
\* enhance_from_murag_evaluation.

\* target_score of enhance_from_murag_evaluation, in hundredths.
DefaultTargetScore == 70
MaxDomains == 2
Domains == 1..MaxDomains

\* f"Analyse stratégique complète des RFP sur le domaine {domain}"
AnalysisPrompt(domain) == [text |-> "Analyse strategique", domain |-> domain]
CustomPrompt == [text |-> "custom", domain |-> 0]

\* One judge report of the list enhance_from_murag_evaluation builds.
JudgeReport(score, reason) ==
    [judge_type |-> "faithfulness", score |-> score, reason |-> reason]

\* enhance_prompt: what Gemini answers to the prompt, the feedback block and
\* the goal it is sent.
enhance_prompt(predefined_prompt, reports, target_score) ==
    [rewritten |-> predefined_prompt, feedback |-> reports,
     target_score |-> target_score]

\* "from muRag_vlm import last_evaluation_score, last_evaluation_reason,
\* last_analysis_prompt": the three names are bound in promptEnhancer to the
\* objects muRag_vlm's names are bound to when the statement runs.
ImportEnhancer ==
    /\ enhancerPc = "not_imported"
    /\ enhancerPc' = "imported"
    /\ enhancer_last_evaluation_score' = last_evaluation_score
    /\ enhancer_last_evaluation_reason' = last_evaluation_reason
    /\ enhancer_last_analysis_prompt' = last_analysis_prompt
    /\ UNCHANGED <<last_analysis_prompt, enhanceCall, judge_reports, enhanced>>
    /\ UNCHANGED enhanceFrame

\* main's loop storing the prompt of the analysis it is about to run in the
\* muRag_vlm global.
StoreAnalysisPrompt ==
    /\ \E domain \in Domains : last_analysis_prompt' = <<AnalysisPrompt(domain)>>
    /\ UNCHANGED <<enhancerPc, enhancer_last_evaluation_score,
                   enhancer_last_evaluation_reason, enhancer_last_analysis_prompt,
                   enhanceCall, judge_reports, enhanced>>
    /\ UNCHANGED enhanceFrame

\* enhance_from_murag_evaluation(user_prompt, target_score): [reports, result];
\* score, reason and analysis_prompt are the names of promptEnhancer.
enhance_from_murag_evaluation(user_prompt, target_score, score, reason, analysis_prompt) ==
    IF user_prompt = <<>> /\ analysis_prompt = <<>>
    THEN [reports |-> <<>>, result |-> "Aucun prompt disponible"]
    ELSE LET prompt == IF user_prompt = <<>> THEN analysis_prompt[1]
                       ELSE user_prompt[1]
         IN IF score = <<>> \/ reason = <<>>
            THEN [reports |-> <<>>, result |-> prompt]
            ELSE LET reports == <<JudgeReport(score[1], reason[1])>>
                 IN [reports |-> reports,
                     result |-> enhance_prompt(prompt, reports, target_score)]

EnhanceFromMuragEvaluation ==
    /\ enhancerPc = "imported"
    /\ \E user_prompt \in {<<>>, <<CustomPrompt>>} :
          LET e == enhance_from_murag_evaluation(
                       user_prompt, DefaultTargetScore,
                       enhancer_last_evaluation_score,
                       enhancer_last_evaluation_reason,
                       enhancer_last_analysis_prompt)
          IN /\ enhanceCall' = <<[user_prompt |-> user_prompt,
                                  score |-> last_evaluation_score,
                                  reason |-> last_evaluation_reason,
                                  analysis_prompt |-> last_analysis_prompt]>>
             /\ judge_reports' = e.reports
             /\ enhanced' = <<e.result>>
    /\ UNCHANGED <<enhancerPc, last_analysis_prompt, enhancer_last_evaluation_score,
                   enhancer_last_evaluation_reason, enhancer_last_analysis_prompt>>
    /\ UNCHANGED enhanceFrame

EnhanceNext ==
    \/ ImportEnhancer
    \/ StoreAnalysisPrompt
    \/ AssessFaithfulness
    \/ EnhanceFromMuragEvaluation

----------------------------------------------------------------------------
\* The progress broadcast of the API (backend/main.py): coroutines of one
\* event loop, which run without interruption from one await to the next.

MaxConnections == 2
Connections == 1..MaxConnections

\* list.remove(x) on a list holding x: the first occurrence goes.
RECURSIVE list_remove(_, _)
list_remove(list, x) ==
    IF list = <<>> THEN <<>>
    ELSE IF Head(list) = x THEN Tail(list)
    ELSE <<Head(list)>> \o list_remove(Tail(list), x)

InList(list, x) == \E i \in DOMAIN list : list[i] = x

\* "for conn in disconnected: active_connections.remove(conn)", which has no
\* await: the list after the removals, and whether a remove raised
\* ValueError, which ends the loop.
RECURSIVE RemoveAll(_, _)
RemoveAll(list, gone) ==
    IF gone = <<>> THEN [list |-> list, raised |-> FALSE]
    ELSE IF ~InList(list, Head(gone)) THEN [list |-> list, raised |-> TRUE]
    ELSE RemoveAll(list_remove(list, Head(gone)), Tail(gone))

\* websocket_endpoint up to its first receive: accept and append.
WsConnect(c) ==
    /\ wsPc[c] = "none"
    /\ wsPc' = [wsPc EXCEPT ![c] = "receiving"]
    /\ open_sockets' = open_sockets \cup {c}
    /\ active_connections' = Append(active_connections, c)
    /\ UNCHANGED <<bcPc, bcIdx, connection, disconnected>>
    /\ UNCHANGED wsFrame

\* The client of the connection goes away.
ClientClose(c) ==
    /\ c \in open_sockets
    /\ open_sockets' = open_sockets \ {c}
    /\ UNCHANGED <<active_connections, wsPc, bcPc, bcIdx, connection, disconnected>>
    /\ UNCHANGED wsFrame

\* receive_text raises WebSocketDisconnect and the handler removes the
\* connection from the list; ValueError leaves the coroutine when the
\* connection is not in the list any more.
WsDisconnect(c) ==
    /\ wsPc[c] = "receiving"
    /\ c \notin open_sockets
    /\ IF InList(active_connections, c)
       THEN /\ active_connections' = list_remove(active_connections, c)
            /\ wsPc' = [wsPc EXCEPT ![c] = "removed"]
       ELSE /\ wsPc' = [wsPc EXCEPT ![c] = "raised"]
            /\ UNCHANGED active_connections
    /\ UNCHANGED <<open_sockets, bcPc, bcIdx, connection, disconnected>>
    /\ UNCHANGED wsFrame

\* broadcast_progress is called: "if active_connections:" and the start of
\* the for loop.
BroadcastCall ==
    /\ bcPc \in {"idle", "returned"}
    /\ IF active_connections # <<>>
       THEN bcPc' = "loop"
       ELSE bcPc' = "returned"
    /\ bcIdx' = 0
    /\ disconnected' = <<>>
    /\ connection' = <<>>
    /\ UNCHANGED <<active_connections, open_sockets, wsPc>>
    /\ UNCHANGED wsFrame

\* The list iterator gives the element at its index, if the list is that
\* long now, and the send is awaited; otherwise the removals run.
BroadcastIterate ==
    /\ bcPc = "loop"
    /\ IF bcIdx < Len(active_connections)
       THEN /\ connection' = <<active_connections[bcIdx + 1]>>
            /\ bcIdx' = bcIdx + 1
            /\ bcPc' = "sending"
            /\ UNCHANGED <<active_connections, disconnected>>
       ELSE LET r == RemoveAll(active_connections, disconnected)
            IN /\ active_connections' = r.list
               /\ bcPc' = IF r.raised THEN "raised" ELSE "returned"
               /\ UNCHANGED <<bcIdx, connection, disconnected>>
    /\ UNCHANGED <<open_sockets, wsPc>>
    /\ UNCHANGED wsFrame

\* "await connection.send_json(message)" ends: with the message sent, or
\* with an exception when the client is gone, which the except clause turns
\* into an entry of disconnected.
BroadcastSent ==
    /\ bcPc = "sending"
    /\ disconnected' = IF connection[1] \in open_sockets THEN disconnected
                       ELSE Append(disconnected, connection[1])
    /\ bcPc' = "loop"
    /\ UNCHANGED <<active_connections, open_sockets, wsPc, bcIdx, connection>>
    /\ UNCHANGED wsFrame

BroadcastNext ==
    \/ \E c \in Connections : WsConnect(c)
    \/ \E c \in Connections : ClientClose(c)
    \/ \E c \in Connections : WsDisconnect(c)
    \/ BroadcastCall
    \/ BroadcastIterate
    \/ BroadcastSent

----------------------------------------------------------------------------
\* AgentOrchestrator (src/orchestrator.py): one ThreadPoolExecutor made by
\* __init__, used by every orchestrate_parallel_analysis call.

MaxCalls == 2
GapAgent == "Gap Analysis Agent"
ModuleAgent == "Module Match Agent"
AgentNames == {GapAgent, ModuleAgent}
UseOutcomes == {"returns", "raises"}

NoFuture == [state |-> "none", report |-> None, error |-> FALSE]

\* run_agent: agent.use(files) gives (report, artifacts); a missing agent
\* or an exception of use gives (None, {"error": ...}).
run_agent(agent_name, registered, outcome) ==
    IF agent_name \notin registered \/ outcome = "raises"
    THEN [state |-> "done", report |-> None, error |-> TRUE]
    ELSE [state |-> "done", report |-> agent_name, error |-> FALSE]

\* The dict built after both futures are done.
OrchResultsOf(gap, module) ==
    LET errors == {a \in AgentNames :
                      (a = GapAgent /\ gap.error) \/ (a = ModuleAgent /\ module.error)}
    IN [gap_report |-> gap.report, module_report |-> module.report,
        status |-> IF errors # {} THEN "error" ELSE "completed",
        errors |-> errors,
        artifacts |-> IF errors # {} THEN {} ELSE AgentNames,
        correlations |-> errors = {}]

\* The call up to its two submit: "with self.executor" enters the pool the
\* instance has; submit on a pool that was shut down raises RuntimeError,
\* which no handler of the function catches.
OrchCall ==
    /\ orchPc \in {"idle", "returned", "raised"}
    /\ orchCalls < MaxCalls
    /\ orchCalls' = orchCalls + 1
    /\ \E u \in [AgentNames -> UseOutcomes] :
          /\ uses' = u
          /\ IF executor_shutdown
             THEN /\ orchPc' = "raised"
                  /\ futures' = [a \in AgentNames |-> NoFuture]
             ELSE /\ orchPc' = "waiting"
                  /\ futures' = [a \in AgentNames |-> [NoFuture EXCEPT !.state = "pending"]]
    /\ orchResults' = <<>>
    /\ UNCHANGED <<agents, executor_shutdown>>
    /\ UNCHANGED orchFrame

\* A worker thread of the pool takes a submitted call.
WorkerStart(a) ==
    /\ futures # <<>>
    /\ futures[a].state = "pending"
    /\ futures' = [futures EXCEPT ![a].state = "running"]
    /\ UNCHANGED <<agents, executor_shutdown, orchPc, orchCalls, uses, orchResults>>
    /\ UNCHANGED orchFrame

\* run_agent returns in the worker thread.
WorkerDone(a) ==
    /\ futures # <<>>
    /\ futures[a].state = "running"
    /\ futures' = [futures EXCEPT ![a] = run_agent(a, agents, uses[a])]
    /\ UNCHANGED <<agents, executor_shutdown, orchPc, orchCalls, uses, orchResults>>
    /\ UNCHANGED orchFrame

\* wait(ALL_COMPLETED) is over: the results are put together, the with block
\* is left, which shuts the pool down, and the dict is returned.
OrchReturn ==
    /\ orchPc = "waiting"
    /\ \A a \in AgentNames : futures[a].state = "done"
    /\ orchResults' = <<OrchResultsOf(futures[GapAgent], futures[ModuleAgent])>>
    /\ executor_shutdown' = TRUE
    /\ orchPc' = "returned"
    /\ UNCHANGED <<agents, orchCalls, uses, futures>>
    /\ UNCHANGED orchFrame

OrchestrateNext ==
    \/ OrchCall
    \/ \E a \in AgentNames : WorkerStart(a)
    \/ \E a \in AgentNames : WorkerDone(a)
    \/ OrchReturn

----------------------------------------------------------------------------
\* The specifications, one per subsystem.  A subsystem that a specification
\* does not run stays in its idle state.
InitSearch ==
    /\ vectorstore \in ShortCorpora \cup LongCorpora
    /\ call = NoCall /\ results = <<>> /\ nnQueries = <<>>
    /\ pdf = NoPdf /\ scanned = <<>>
    /\ vlmPc = "idle" /\ pageIdx = 0 /\ extracted_texts = <<>>
    /\ extracted = Unset /\ vlmLog = <<>>
    /\ fs = {} /\ vlm_client = None /\ pdf_folders = DefaultFolders
    /\ ingestPc = "idle" /\ folderIdx = 1 /\ processed = {}
    /\ all_documents = <<>> /\ document_registry = EmptyDict
    /\ rfp_response_mapping = EmptyDict /\ nextId = 1 /\ chunks = <<>>
    /\ disk_registry = <<>> /\ disk_mapping = <<>>
    /\ entry = "api" /\ startPc = "idle" /\ faiss_index = NoIndex
    /\ registry_files = <<>> /\ sources = "chunks" /\ loaded_index = <<>>
    /\ console = {} /\ restarts = 0
    /\ judge_configured = FALSE /\ metric_threshold = DefaultThreshold
    /\ loopPc = "idle" /\ request = 0 /\ complete_analysis = NoAnalysis
    /\ evaluation_result = <<>> /\ analysisLog = <<>> /\ assessCall = NoAssessCall
    /\ assessResult = <<>>
    /\ last_evaluation_score = <<>> /\ last_evaluation_reason = <<>>
    /\ built_index = <<>> /\ index_dir = <<>> /\ loaded_store = <<>>
    /\ index_query = <<>> /\ fresh_results = <<>> /\ loaded_results = <<>>
    /\ enhancerPc = "not_imported" /\ last_analysis_prompt = <<>>
    /\ enhancer_last_evaluation_score = <<>>
    /\ enhancer_last_evaluation_reason = <<>>
    /\ enhancer_last_analysis_prompt = <<>>
    /\ enhanceCall = <<>> /\ judge_reports = <<>> /\ enhanced = <<>>
    /\ active_connections = <<>> /\ open_sockets = {}
    /\ wsPc = <<>> /\ bcPc = "idle" /\ bcIdx = 0
    /\ connection = <<>> /\ disconnected = <<>>
    /\ agents = {} /\ executor_shutdown = FALSE /\ orchPc = "idle"
    /\ orchCalls = 0 /\ uses = <<>> /\ futures = <<>> /\ orchResults = <<>>
    /\ analysisCall = <<>> /\ analysisReturn = <<>>

SpecSearch == InitSearch /\ [][SearchNext]_vars

InitClassify ==
    /\ \E n \in 0..MaxPages : pdf \in ClassifierPdfs(n)
    /\ scanned = <<>>
    /\ vectorstore = <<>> /\ call = NoCall /\ results = <<>> /\ nnQueries = <<>>
    /\ vlmPc = "idle" /\ pageIdx = 0 /\ extracted_texts = <<>>
    /\ extracted = Unset /\ vlmLog = <<>>
    /\ fs = {} /\ vlm_client = None /\ pdf_folders = DefaultFolders
    /\ ingestPc = "idle" /\ folderIdx = 1 /\ processed = {}
    /\ all_documents = <<>> /\ document_registry = EmptyDict
    /\ rfp_response_mapping = EmptyDict /\ nextId = 1 /\ chunks = <<>>
    /\ disk_registry = <<>> /\ disk_mapping = <<>>
    /\ entry = "api" /\ startPc = "idle" /\ faiss_index = NoIndex
    /\ registry_files = <<>> /\ sources = "chunks" /\ loaded_index = <<>>
    /\ console = {} /\ restarts = 0
    /\ judge_configured = FALSE /\ metric_threshold = DefaultThreshold
    /\ loopPc = "idle" /\ request = 0 /\ complete_analysis = NoAnalysis
    /\ evaluation_result = <<>> /\ analysisLog = <<>> /\ assessCall = NoAssessCall
    /\ assessResult = <<>>
    /\ last_evaluation_score = <<>> /\ last_evaluation_reason = <<>>
    /\ built_index = <<>> /\ index_dir = <<>> /\ loaded_store = <<>>
    /\ index_query = <<>> /\ fresh_results = <<>> /\ loaded_results = <<>>
    /\ enhancerPc = "not_imported" /\ last_analysis_prompt = <<>>
    /\ enhancer_last_evaluation_score = <<>>
    /\ enhancer_last_evaluation_reason = <<>>
    /\ enhancer_last_analysis_prompt = <<>>
    /\ enhanceCall = <<>> /\ judge_reports = <<>> /\ enhanced = <<>>
    /\ active_connections = <<>> /\ open_sockets = {}
    /\ wsPc = <<>> /\ bcPc = "idle" /\ bcIdx = 0
    /\ connection = <<>> /\ disconnected = <<>>
    /\ agents = {} /\ executor_shutdown = FALSE /\ orchPc = "idle"
    /\ orchCalls = 0 /\ uses = <<>> /\ futures = <<>> /\ orchResults = <<>>
    /\ analysisCall = <<>> /\ analysisReturn = <<>>

SpecClassify == InitClassify /\ [][ClassifyNext]_vars

InitVlm ==
    /\ \E n \in 0..MaxScanPages : pdf \in ScanPdfs(n)
    /\ vlmPc = "idle" /\ pageIdx = 0 /\ extracted_texts = <<>>
    /\ extracted = Unset /\ vlmLog = <<>>
    /\ scanned = <<>>
    /\ vectorstore = <<>> /\ call = NoCall /\ results = <<>> /\ nnQueries = <<>>
    /\ fs = {} /\ vlm_client = None /\ pdf_folders = DefaultFolders
    /\ ingestPc = "idle" /\ folderIdx = 1 /\ processed = {}
    /\ all_documents = <<>> /\ document_registry = EmptyDict
    /\ rfp_response_mapping = EmptyDict /\ nextId = 1 /\ chunks = <<>>
    /\ disk_registry = <<>> /\ disk_mapping = <<>>
    /\ entry = "api" /\ startPc = "idle" /\ faiss_index = NoIndex
    /\ registry_files = <<>> /\ sources = "chunks" /\ loaded_index = <<>>
    /\ console = {} /\ restarts = 0
    /\ judge_configured = FALSE /\ metric_threshold = DefaultThreshold
    /\ loopPc = "idle" /\ request = 0 /\ complete_analysis = NoAnalysis
    /\ evaluation_result = <<>> /\ analysisLog = <<>> /\ assessCall = NoAssessCall
    /\ assessResult = <<>>
    /\ last_evaluation_score = <<>> /\ last_evaluation_reason = <<>>
    /\ built_index = <<>> /\ index_dir = <<>> /\ loaded_store = <<>>
    /\ index_query = <<>> /\ fresh_results = <<>> /\ loaded_results = <<>>
    /\ enhancerPc = "not_imported" /\ last_analysis_prompt = <<>>
    /\ enhancer_last_evaluation_score = <<>>
    /\ enhancer_last_evaluation_reason = <<>>
    /\ enhancer_last_analysis_prompt = <<>>
    /\ enhanceCall = <<>> /\ judge_reports = <<>> /\ enhanced = <<>>
    /\ active_connections = <<>> /\ open_sockets = {}
    /\ wsPc = <<>> /\ bcPc = "idle" /\ bcIdx = 0
    /\ connection = <<>> /\ disconnected = <<>>
    /\ agents = {} /\ executor_shutdown = FALSE /\ orchPc = "idle"
    /\ orchCalls = 0 /\ uses = <<>> /\ futures = <<>> /\ orchResults = <<>>
    /\ analysisCall = <<>> /\ analysisReturn = <<>>

SpecVlm == InitVlm /\ [][VlmNext]_vars

\* The folder orders drawn for the pdf_folders argument: the default and its
\* reverse.
FolderOrders ==
    { DefaultFolders,
      <<RejectedResponse, RejectedRfp, ApprovedResponse, ApprovedRfp>> }

\* The registry files an earlier pass may have left: none, or those of a
\* pass over one requirement document of project 2.
PreviousId == NoId - 1
PreviousDisks ==
    { [registry |-> <<>>, mapping |-> <<>>],
      [registry |->
           <<json_dump(PreviousId :>
                [file |-> <<"rfp", "2", ".pdf">>, folder |-> ApprovedRfp,
                 type |-> "text_standard", status |-> "approved",
                 category |-> "rfp", project_number |-> "2"])>>,
       mapping |->
           <<json_dump("2" :> [rfp |-> PreviousId, response |-> NoId,
                               status |-> "approved"])>>] }

InitIngest ==
    /\ fs \in Disks
    /\ vlm_client \in {None, "Together"}
    /\ pdf_folders \in FolderOrders
    /\ ingestPc = "loop" /\ folderIdx = 1 /\ processed = {}
    /\ all_documents = <<>> /\ document_registry = EmptyDict
    /\ rfp_response_mapping = EmptyDict /\ nextId = 1 /\ chunks = <<>>
    /\ \E previous \in PreviousDisks :
          /\ disk_registry = previous.registry
          /\ disk_mapping = previous.mapping
    /\ pdf = NoPdf /\ scanned = <<>>
    /\ vlmPc = "idle" /\ pageIdx = 0 /\ extracted_texts = <<>>
    /\ extracted = Unset /\ vlmLog = <<>>
    /\ vectorstore = <<>> /\ call = NoCall /\ results = <<>> /\ nnQueries = <<>>
    /\ entry = "api" /\ startPc = "idle" /\ faiss_index = NoIndex
    /\ registry_files = <<>> /\ sources = "chunks" /\ loaded_index = <<>>
    /\ console = {} /\ restarts = 0
    /\ judge_configured = FALSE /\ metric_threshold = DefaultThreshold
    /\ loopPc = "idle" /\ request = 0 /\ complete_analysis = NoAnalysis
    /\ evaluation_result = <<>> /\ analysisLog = <<>> /\ assessCall = NoAssessCall
    /\ assessResult = <<>>
    /\ last_evaluation_score = <<>> /\ last_evaluation_reason = <<>>
    /\ built_index = <<>> /\ index_dir = <<>> /\ loaded_store = <<>>
    /\ index_query = <<>> /\ fresh_results = <<>> /\ loaded_results = <<>>
    /\ enhancerPc = "not_imported" /\ last_analysis_prompt = <<>>
    /\ enhancer_last_evaluation_score = <<>>
    /\ enhancer_last_evaluation_reason = <<>>
    /\ enhancer_last_analysis_prompt = <<>>
    /\ enhanceCall = <<>> /\ judge_reports = <<>> /\ enhanced = <<>>
    /\ active_connections = <<>> /\ open_sockets = {}
    /\ wsPc = <<>> /\ bcPc = "idle" /\ bcIdx = 0
    /\ connection = <<>> /\ disconnected = <<>>
    /\ agents = {} /\ executor_shutdown = FALSE /\ orchPc = "idle"
    /\ orchCalls = 0 /\ uses = <<>> /\ futures = <<>> /\ orchResults = <<>>
    /\ analysisCall = <<>> /\ analysisReturn = <<>>

SpecIngest == InitIngest /\ [][IngestNext]_vars

InitStartup ==
    /\ entry \in {"api", "cli"}
    /\ startPc = "start"
    /\ faiss_index \in {NoIndex, Index(TRUE, 0), Index(FALSE, 0)}
    /\ registry_files = (IF faiss_index.exists THEN <<0>> ELSE <<>>)
    /\ sources \in SourceOutcomes
    /\ loaded_index = <<>>
    /\ console = {}
    /\ restarts = 0
    /\ fs = {} /\ vlm_client = None /\ pdf_folders = DefaultFolders
    /\ ingestPc = "idle" /\ folderIdx = 1 /\ processed = {}
    /\ all_documents = <<>> /\ document_registry = EmptyDict
    /\ rfp_response_mapping = EmptyDict /\ nextId = 1 /\ chunks = <<>>
    /\ disk_registry = <<>> /\ disk_mapping = <<>>
    /\ pdf = NoPdf /\ scanned = <<>>
    /\ vlmPc = "idle" /\ pageIdx = 0 /\ extracted_texts = <<>>
    /\ extracted = Unset /\ vlmLog = <<>>
    /\ vectorstore = <<>> /\ call = NoCall /\ results = <<>> /\ nnQueries = <<>>
    /\ judge_configured = FALSE /\ metric_threshold = DefaultThreshold
    /\ loopPc = "idle" /\ request = 0 /\ complete_analysis = NoAnalysis
    /\ evaluation_result = <<>> /\ analysisLog = <<>> /\ assessCall = NoAssessCall
    /\ assessResult = <<>>
    /\ last_evaluation_score = <<>> /\ last_evaluation_reason = <<>>
    /\ built_index = <<>> /\ index_dir = <<>> /\ loaded_store = <<>>
    /\ index_query = <<>> /\ fresh_results = <<>> /\ loaded_results = <<>>
    /\ enhancerPc = "not_imported" /\ last_analysis_prompt = <<>>
    /\ enhancer_last_evaluation_score = <<>>
    /\ enhancer_last_evaluation_reason = <<>>
    /\ enhancer_last_analysis_prompt = <<>>
    /\ enhanceCall = <<>> /\ judge_reports = <<>> /\ enhanced = <<>>
    /\ active_connections = <<>> /\ open_sockets = {}
    /\ wsPc = <<>> /\ bcPc = "idle" /\ bcIdx = 0
    /\ connection = <<>> /\ disconnected = <<>>
    /\ agents = {} /\ executor_shutdown = FALSE /\ orchPc = "idle"
    /\ orchCalls = 0 /\ uses = <<>> /\ futures = <<>> /\ orchResults = <<>>
    /\ analysisCall = <<>> /\ analysisReturn = <<>>

SpecStartup == InitStartup /\ [][StartupNext]_vars

\* The indexes drawn for the analysis loop: requirement chunks of either
\* outcome, at most MaxJudgeCorpus of them.
JudgeCorpora ==
    UNION {{[i \in 1..n |-> Chunk(i, m[i], "rfp")] : m \in [1..n -> RfpStatuses]} :
              n \in 0..MaxJudgeCorpus}

InitJudge ==
    /\ vectorstore \in JudgeCorpora
    /\ judge_configured \in BOOLEAN
    /\ metric_threshold = DefaultThreshold
    /\ loopPc = "prompt" /\ request = 0 /\ complete_analysis = NoAnalysis
    /\ evaluation_result = <<>> /\ analysisLog = <<>> /\ assessCall = NoAssessCall
    /\ assessResult = <<>>
    /\ last_evaluation_score = <<>> /\ last_evaluation_reason = <<>>
    /\ call = NoCall /\ results = <<>> /\ nnQueries = <<>>
    /\ pdf = NoPdf /\ scanned = <<>>
    /\ vlmPc = "idle" /\ pageIdx = 0 /\ extracted_texts = <<>>
    /\ extracted = Unset /\ vlmLog = <<>>
    /\ fs = {} /\ vlm_client = None /\ pdf_folders = DefaultFolders
    /\ ingestPc = "idle" /\ folderIdx = 1 /\ processed = {}
    /\ all_documents = <<>> /\ document_registry = EmptyDict
    /\ rfp_response_mapping = EmptyDict /\ nextId = 1 /\ chunks = <<>>
    /\ disk_registry = <<>> /\ disk_mapping = <<>>
    /\ entry = "api" /\ startPc = "idle" /\ faiss_index = NoIndex
    /\ registry_files = <<>> /\ sources = "chunks" /\ loaded_index = <<>>
    /\ console = {} /\ restarts = 0
    /\ built_index = <<>> /\ index_dir = <<>> /\ loaded_store = <<>>
    /\ index_query = <<>> /\ fresh_results = <<>> /\ loaded_results = <<>>
    /\ enhancerPc = "not_imported" /\ last_analysis_prompt = <<>>
    /\ enhancer_last_evaluation_score = <<>>
    /\ enhancer_last_evaluation_reason = <<>>
    /\ enhancer_last_analysis_prompt = <<>>
    /\ enhanceCall = <<>> /\ judge_reports = <<>> /\ enhanced = <<>>
    /\ active_connections = <<>> /\ open_sockets = {}
    /\ wsPc = <<>> /\ bcPc = "idle" /\ bcIdx = 0
    /\ connection = <<>> /\ disconnected = <<>>
    /\ agents = {} /\ executor_shutdown = FALSE /\ orchPc = "idle"
    /\ orchCalls = 0 /\ uses = <<>> /\ futures = <<>> /\ orchResults = <<>>
    /\ analysisCall = <<>> /\ analysisReturn = <<>>

SpecJudge == InitJudge /\ [][JudgeNext]_vars

\* The globals an earlier evaluation may have left.
EarlierGlobals ==
    {JudgeGlobals(<<>>, <<>>, DefaultThreshold)} \cup
    {JudgeGlobals(<<sc>>, <<Reason("faith_metric.reason", sc)>>, th) :
        sc \in Scores, th \in Thresholds}

InitAssess ==
    /\ judge_configured \in BOOLEAN
    /\ \E g \in EarlierGlobals :
          /\ last_evaluation_score = g.last_evaluation_score
          /\ last_evaluation_reason = g.last_evaluation_reason
          /\ metric_threshold = g.threshold
    /\ loopPc = "idle" /\ request = 0 /\ complete_analysis = NoAnalysis
    /\ evaluation_result = <<>> /\ analysisLog = <<>> /\ assessCall = NoAssessCall
    /\ assessResult = <<>>
    /\ vectorstore = <<>> /\ call = NoCall /\ results = <<>> /\ nnQueries = <<>>
    /\ pdf = NoPdf /\ scanned = <<>>
    /\ vlmPc = "idle" /\ pageIdx = 0 /\ extracted_texts = <<>>
    /\ extracted = Unset /\ vlmLog = <<>>
    /\ fs = {} /\ vlm_client = None /\ pdf_folders = DefaultFolders
    /\ ingestPc = "idle" /\ folderIdx = 1 /\ processed = {}
    /\ all_documents = <<>> /\ document_registry = EmptyDict
    /\ rfp_response_mapping = EmptyDict /\ nextId = 1 /\ chunks = <<>>
    /\ disk_registry = <<>> /\ disk_mapping = <<>>
    /\ entry = "api" /\ startPc = "idle" /\ faiss_index = NoIndex
    /\ registry_files = <<>> /\ sources = "chunks" /\ loaded_index = <<>>
    /\ console = {} /\ restarts = 0
    /\ built_index = <<>> /\ index_dir = <<>> /\ loaded_store = <<>>
    /\ index_query = <<>> /\ fresh_results = <<>> /\ loaded_results = <<>>
    /\ enhancerPc = "not_imported" /\ last_analysis_prompt = <<>>
    /\ enhancer_last_evaluation_score = <<>>
    /\ enhancer_last_evaluation_reason = <<>>
    /\ enhancer_last_analysis_prompt = <<>>
    /\ enhanceCall = <<>> /\ judge_reports = <<>> /\ enhanced = <<>>
    /\ active_connections = <<>> /\ open_sockets = {}
    /\ wsPc = <<>> /\ bcPc = "idle" /\ bcIdx = 0
    /\ connection = <<>> /\ disconnected = <<>>
    /\ agents = {} /\ executor_shutdown = FALSE /\ orchPc = "idle"
    /\ orchCalls = 0 /\ uses = <<>> /\ futures = <<>> /\ orchResults = <<>>
    /\ analysisCall = <<>> /\ analysisReturn = <<>>

SpecAssess == InitAssess /\ [][AssessNext]_vars

\* The two evaluation functions called in any order on the same globals.
SpecEvaluate == InitAssess /\ [][EvaluateNext]_vars

InitIndex ==
    /\ judge_configured = FALSE /\ metric_threshold = DefaultThreshold
    /\ last_evaluation_score = <<>> /\ last_evaluation_reason = <<>>
    /\ loopPc = "idle" /\ request = 0 /\ complete_analysis = NoAnalysis
    /\ evaluation_result = <<>> /\ analysisLog = <<>> /\ assessCall = NoAssessCall
    /\ assessResult = <<>>
    /\ vectorstore = <<>> /\ call = NoCall /\ results = <<>> /\ nnQueries = <<>>
    /\ pdf = NoPdf /\ scanned = <<>>
    /\ vlmPc = "idle" /\ pageIdx = 0 /\ extracted_texts = <<>>
    /\ extracted = Unset /\ vlmLog = <<>>
    /\ fs = {} /\ vlm_client = None /\ pdf_folders = DefaultFolders
    /\ ingestPc = "idle" /\ folderIdx = 1 /\ processed = {}
    /\ all_documents = <<>> /\ document_registry = EmptyDict
    /\ rfp_response_mapping = EmptyDict /\ nextId = 1 /\ chunks = <<>>
    /\ disk_registry = <<>> /\ disk_mapping = <<>>
    /\ entry = "api" /\ startPc = "idle" /\ faiss_index = NoIndex
    /\ registry_files = <<>> /\ sources = "chunks" /\ loaded_index = <<>>
    /\ console = {} /\ restarts = 0
    /\ built_index = <<>> /\ index_dir = <<>> /\ loaded_store = <<>>
    /\ index_query = <<>> /\ fresh_results = <<>> /\ loaded_results = <<>>
    /\ enhancerPc = "not_imported" /\ last_analysis_prompt = <<>>
    /\ enhancer_last_evaluation_score = <<>>
    /\ enhancer_last_evaluation_reason = <<>>
    /\ enhancer_last_analysis_prompt = <<>>
    /\ enhanceCall = <<>> /\ judge_reports = <<>> /\ enhanced = <<>>
    /\ active_connections = <<>> /\ open_sockets = {}
    /\ wsPc = <<>> /\ bcPc = "idle" /\ bcIdx = 0
    /\ connection = <<>> /\ disconnected = <<>>
    /\ agents = {} /\ executor_shutdown = FALSE /\ orchPc = "idle"
    /\ orchCalls = 0 /\ uses = <<>> /\ futures = <<>> /\ orchResults = <<>>
    /\ analysisCall = <<>> /\ analysisReturn = <<>>

SpecIndex == InitIndex /\ [][IndexNext]_vars

\* A process that has imported muRag_vlm: its three globals are None, the
\* judge is configured or not, promptEnhancer is not imported yet.
InitEnhance ==
    /\ enhancerPc = "not_imported" /\ last_analysis_prompt = <<>>
    /\ enhancer_last_evaluation_score = <<>>
    /\ enhancer_last_evaluation_reason = <<>>
    /\ enhancer_last_analysis_prompt = <<>>
    /\ enhanceCall = <<>> /\ judge_reports = <<>> /\ enhanced = <<>>
    /\ judge_configured \in BOOLEAN
    /\ metric_threshold = DefaultThreshold
    /\ loopPc = "idle" /\ request = 0 /\ complete_analysis = NoAnalysis
    /\ evaluation_result = <<>> /\ analysisLog = <<>> /\ assessCall = NoAssessCall
    /\ assessResult = <<>>
    /\ last_evaluation_score = <<>> /\ last_evaluation_reason = <<>>
    /\ vectorstore = <<>> /\ call = NoCall /\ results = <<>> /\ nnQueries = <<>>
    /\ pdf = NoPdf /\ scanned = <<>>
    /\ vlmPc = "idle" /\ pageIdx = 0 /\ extracted_texts = <<>>
    /\ extracted = Unset /\ vlmLog = <<>>
    /\ fs = {} /\ vlm_client = None /\ pdf_folders = DefaultFolders
    /\ ingestPc = "idle" /\ folderIdx = 1 /\ processed = {}
    /\ all_documents = <<>> /\ document_registry = EmptyDict
    /\ rfp_response_mapping = EmptyDict /\ nextId = 1 /\ chunks = <<>>
    /\ disk_registry = <<>> /\ disk_mapping = <<>>
    /\ entry = "api" /\ startPc = "idle" /\ faiss_index = NoIndex
    /\ registry_files = <<>> /\ sources = "chunks" /\ loaded_index = <<>>
    /\ console = {} /\ restarts = 0
    /\ built_index = <<>> /\ index_dir = <<>> /\ loaded_store = <<>>
    /\ index_query = <<>> /\ fresh_results = <<>> /\ loaded_results = <<>>
    /\ active_connections = <<>> /\ open_sockets = {}
    /\ wsPc = <<>> /\ bcPc = "idle" /\ bcIdx = 0
    /\ connection = <<>> /\ disconnected = <<>>
    /\ agents = {} /\ executor_shutdown = FALSE /\ orchPc = "idle"
    /\ orchCalls = 0 /\ uses = <<>> /\ futures = <<>> /\ orchResults = <<>>
    /\ analysisCall = <<>> /\ analysisReturn = <<>>

SpecEnhance == InitEnhance /\ [][EnhanceNext]_vars

\* The extraction with the scheduling the code has: the function's own steps
\* are taken when they can be; the answer of the remote model to a synchronous
\* create() call, passed no timeout, is the remote's to give.
SpecVlmLive ==
    /\ InitVlm
    /\ [][VlmNext]_vars
    /\ WF_vars(VlmConvert) /\ WF_vars(VlmRequest) /\ WF_vars(VlmReturn)

\* The API after its start: no connection yet, no broadcast running.
InitBroadcast ==
    /\ active_connections = <<>> /\ open_sockets = {}
    /\ wsPc = [c \in Connections |-> "none"]
    /\ bcPc = "idle" /\ bcIdx = 0
    /\ connection = <<>> /\ disconnected = <<>>
    /\ vectorstore = <<>> /\ call = NoCall /\ results = <<>> /\ nnQueries = <<>>
    /\ pdf = NoPdf /\ scanned = <<>>
    /\ vlmPc = "idle" /\ pageIdx = 0 /\ extracted_texts = <<>>
    /\ extracted = Unset /\ vlmLog = <<>>
    /\ fs = {} /\ vlm_client = None /\ pdf_folders = DefaultFolders
    /\ ingestPc = "idle" /\ folderIdx = 1 /\ processed = {}
    /\ all_documents = <<>> /\ document_registry = EmptyDict
    /\ rfp_response_mapping = EmptyDict /\ nextId = 1 /\ chunks = <<>>
    /\ disk_registry = <<>> /\ disk_mapping = <<>>
    /\ entry = "api" /\ startPc = "idle" /\ faiss_index = NoIndex
    /\ registry_files = <<>> /\ sources = "chunks" /\ loaded_index = <<>>
    /\ console = {} /\ restarts = 0
    /\ judge_configured = FALSE /\ metric_threshold = DefaultThreshold
    /\ loopPc = "idle" /\ request = 0 /\ complete_analysis = NoAnalysis
    /\ evaluation_result = <<>> /\ analysisLog = <<>> /\ assessCall = NoAssessCall
    /\ assessResult = <<>>
    /\ last_evaluation_score = <<>> /\ last_evaluation_reason = <<>>
    /\ built_index = <<>> /\ index_dir = <<>> /\ loaded_store = <<>>
    /\ index_query = <<>> /\ fresh_results = <<>> /\ loaded_results = <<>>
    /\ enhancerPc = "not_imported" /\ last_analysis_prompt = <<>>
    /\ enhancer_last_evaluation_score = <<>>
    /\ enhancer_last_evaluation_reason = <<>>
    /\ enhancer_last_analysis_prompt = <<>>
    /\ enhanceCall = <<>> /\ judge_reports = <<>> /\ enhanced = <<>>
    /\ agents = {} /\ executor_shutdown = FALSE /\ orchPc = "idle"
    /\ orchCalls = 0 /\ uses = <<>> /\ futures = <<>> /\ orchResults = <<>>
    /\ analysisCall = <<>> /\ analysisReturn = <<>>

SpecBroadcast == InitBroadcast /\ [][BroadcastNext]_vars

\* AgentOrchestrator(agents): a new pool of two workers, no call made yet.
InitOrchestrate ==
    /\ agents \in SUBSET AgentNames
    /\ executor_shutdown = FALSE /\ orchPc = "idle"
    /\ orchCalls = 0 /\ uses = <<>> /\ futures = <<>> /\ orchResults = <<>>
    /\ vectorstore = <<>> /\ call = NoCall /\ results = <<>> /\ nnQueries = <<>>
    /\ pdf = NoPdf /\ scanned = <<>>
    /\ vlmPc = "idle" /\ pageIdx = 0 /\ extracted_texts = <<>>
    /\ extracted = Unset /\ vlmLog = <<>>
    /\ fs = {} /\ vlm_client = None /\ pdf_folders = DefaultFolders
    /\ ingestPc = "idle" /\ folderIdx = 1 /\ processed = {}
    /\ all_documents = <<>> /\ document_registry = EmptyDict
    /\ rfp_response_mapping = EmptyDict /\ nextId = 1 /\ chunks = <<>>
    /\ disk_registry = <<>> /\ disk_mapping = <<>>
    /\ entry = "api" /\ startPc = "idle" /\ faiss_index = NoIndex
    /\ registry_files = <<>> /\ sources = "chunks" /\ loaded_index = <<>>
    /\ console = {} /\ restarts = 0
    /\ judge_configured = FALSE /\ metric_threshold = DefaultThreshold
    /\ loopPc = "idle" /\ request = 0 /\ complete_analysis = NoAnalysis
    /\ evaluation_result = <<>> /\ analysisLog = <<>> /\ assessCall = NoAssessCall
    /\ assessResult = <<>>
    /\ last_evaluation_score = <<>> /\ last_evaluation_reason = <<>>
    /\ built_index = <<>> /\ index_dir = <<>> /\ loaded_store = <<>>
    /\ index_query = <<>> /\ fresh_results = <<>> /\ loaded_results = <<>>
    /\ enhancerPc = "not_imported" /\ last_analysis_prompt = <<>>
    /\ enhancer_last_evaluation_score = <<>>
    /\ enhancer_last_evaluation_reason = <<>>
    /\ enhancer_last_analysis_prompt = <<>>
    /\ enhanceCall = <<>> /\ judge_reports = <<>> /\ enhanced = <<>>
    /\ active_connections = <<>> /\ open_sockets = {}
    /\ wsPc = <<>> /\ bcPc = "idle" /\ bcIdx = 0
    /\ connection = <<>> /\ disconnected = <<>>
    /\ analysisCall = <<>> /\ analysisReturn = <<>>

SpecOrchestrate == InitOrchestrate /\ [][OrchestrateNext]_vars

\* An index of requirement chunks, before any call of the analysis.
InitAnalysis ==
    /\ vectorstore \in JudgeCorpora
    /\ analysisCall = <<>> /\ analysisReturn = <<>>
    /\ call = NoCall /\ results = <<>> /\ nnQueries = <<>>
    /\ pdf = NoPdf /\ scanned = <<>>
    /\ vlmPc = "idle" /\ pageIdx = 0 /\ extracted_texts = <<>>
    /\ extracted = Unset /\ vlmLog = <<>>
    /\ fs = {} /\ vlm_client = None /\ pdf_folders = DefaultFolders
    /\ ingestPc = "idle" /\ folderIdx = 1 /\ processed = {}
    /\ all_documents = <<>> /\ document_registry = EmptyDict
    /\ rfp_response_mapping = EmptyDict /\ nextId = 1 /\ chunks = <<>>
    /\ disk_registry = <<>> /\ disk_mapping = <<>>
    /\ entry = "api" /\ startPc = "idle" /\ faiss_index = NoIndex
    /\ registry_files = <<>> /\ sources = "chunks" /\ loaded_index = <<>>
    /\ console = {} /\ restarts = 0
    /\ judge_configured = FALSE /\ metric_threshold = DefaultThreshold
    /\ loopPc = "idle" /\ request = 0 /\ complete_analysis = NoAnalysis
    /\ evaluation_result = <<>> /\ analysisLog = <<>> /\ assessCall = NoAssessCall
    /\ assessResult = <<>>
    /\ last_evaluation_score = <<>> /\ last_evaluation_reason = <<>>
    /\ built_index = <<>> /\ index_dir = <<>> /\ loaded_store = <<>>
    /\ index_query = <<>> /\ fresh_results = <<>> /\ loaded_results = <<>>
    /\ enhancerPc = "not_imported" /\ last_analysis_prompt = <<>>
    /\ enhancer_last_evaluation_score = <<>>
    /\ enhancer_last_evaluation_reason = <<>>
    /\ enhancer_last_analysis_prompt = <<>>
    /\ enhanceCall = <<>> /\ judge_reports = <<>> /\ enhanced = <<>>
    /\ active_connections = <<>> /\ open_sockets = {}
    /\ wsPc = <<>> /\ bcPc = "idle" /\ bcIdx = 0
    /\ connection = <<>> /\ disconnected = <<>>
    /\ agents = {} /\ executor_shutdown = FALSE /\ orchPc = "idle"
    /\ orchCalls = 0 /\ uses = <<>> /\ futures = <<>> /\ orchResults = <<>>

SpecAnalysis == InitAnalysis /\ [][AnalysisNext]_vars

----------------------------------------------------------------------------
\* Claims about the filtered retriever, checked under SpecSearch.

\* Whether chunk c passes the filters that the last call gave.
PassesCall(c) ==
    /\ call.rfp_status # None => c.rfp_status = call.rfp_status
    /\ call.doc_category # None => c.doc_category = call.doc_category

\* The ranks of the chunks among the n nearest that pass the filters.
MatchingRanks(n) == {i \in 1..Min(n, Len(vectorstore)) : PassesCall(vectorstore[i])}

StatusFiltered == call.fn = "status" /\ call.rfp_status # None
CategoryCall == call.fn = "category"

\* C1: every chunk a status-filtered search returns has the requested
\* rfp_status, and every chunk the status/category search returns matches
\* each filter that was given.
C1_FilterSound ==
    /\ StatusFiltered =>
           \A i \in DOMAIN results : results[i].rfp_status = call.rfp_status
    /\ CategoryCall =>
           \A i \in DOMAIN results :
               /\ call.rfp_status # None => results[i].rfp_status = call.rfp_status
               /\ call.doc_category # None =>
                      results[i].doc_category = call.doc_category

\* C1 witness: a search with both filters returned a chunk that is ranked
\* behind a chunk failing the status filter and one failing the category filter.
C1_Witness ==
    /\ CategoryCall /\ call.rfp_status # None /\ call.doc_category # None
    /\ \E i \in DOMAIN results, a, b \in DOMAIN vectorstore :
           /\ a < results[i].rank /\ b < results[i].rank
           /\ vectorstore[a].rfp_status # call.rfp_status
           /\ vectorstore[b].doc_category # call.doc_category

\* C2 as claimed: when the whole corpus holds m < k chunks of status S, the
\* status-filtered search returns exactly m results.
C2_WholeCorpusCount ==
    StatusFiltered =>
        LET m == Cardinality(MatchingRanks(Len(vectorstore)))
        IN m < call.k => Len(results) = m

\* C2 amended: when the 5*k nearest chunks hold m < k chunks of status S, the
\* search returns exactly those m chunks (matching chunks ranked behind the
\* 5*k-th are not returned); so it returns every matching chunk of the corpus
\* whenever the corpus has at most 5*k chunks.
C2_OversampleCount ==
    StatusFiltered =>
        LET inWindow == MatchingRanks(5 * call.k)
            inCorpus == MatchingRanks(Len(vectorstore))
        IN /\ Cardinality(inWindow) < call.k =>
                  /\ Len(results) = Cardinality(inWindow)
                  /\ {results[i].rank : i \in DOMAIN results} = inWindow
           /\ (Len(vectorstore) <= 5 * call.k /\ Cardinality(inCorpus) < call.k) =>
                  Len(results) = Cardinality(inCorpus)

\* C2 witness: a corpus of more than 5*k chunks with fewer than k matches
\* among the 5*k nearest and one more match behind them.
C2_Witness ==
    /\ StatusFiltered
    /\ Len(vectorstore) > 5 * call.k
    /\ Len(results) = 1 /\ call.k = 2
    /\ Cardinality(MatchingRanks(Len(vectorstore))) = 2

\* C3: a filtered search issues exactly one nearest-neighbour query, for 5*k
\* (status filter) or 4*k (status/category filter) chunks, and returns the
\* first min(k, m) matching chunks of that oversample in similarity order,
\* m being the number of matches inside the oversample; it is never padded
\* and never asks the index a second time.
C3_OneOversampledQuery ==
    (StatusFiltered \/ CategoryCall) =>
        LET n == IF CategoryCall THEN 4 * call.k ELSE 5 * call.k
            inWindow == MatchingRanks(n)
        IN /\ nnQueries = <<n>>
           /\ Len(results) = Min(call.k, Cardinality(inWindow))
           /\ \A i \in DOMAIN results :
                  /\ results[i] = vectorstore[results[i].rank]
                  /\ results[i].rank \in inWindow
                  /\ i > 1 => results[i - 1].rank < results[i].rank
                  \* no matching chunk ranked before a returned one is left out
                  /\ Cardinality({r \in inWindow : r <= results[i].rank}) = i

\* C3 witness: the search came back short although a matching chunk lies
\* behind the oversample.
C3_Witness ==
    /\ CategoryCall /\ call.doc_category # None
    /\ Len(results) < call.k
    /\ \E i \in DOMAIN vectorstore :
           i > 4 * call.k /\ PassesCall(vectorstore[i])

----------------------------------------------------------------------------
\* Claims about the vision extractor, checked under SpecVlm.

\* The marker lines of a text, in order.
Markers(text) == SelectSeq(text, LAMBDA t : t.kind = "marker")

RECURSIVE SumMarkers(_, _)
SumMarkers(pages, n) ==
    IF n = 0 THEN 0
    ELSE SumMarkers(pages, n - 1) + Len(Markers(pages[n].vlm_text))

FailedPages == {vlmLog[p].page : p \in {q \in DOMAIN vlmLog : vlmLog[q].ev = "error"}}
VlmReturned == vlmPc = "done"
AllPagesSucceed ==
    pdf.renderable /\ \A k \in DOMAIN pdf.pages : pdf.pages[k].vlm_ok

\* C8 as claimed: when the vision request for one page fails, only that
\* page's content becomes empty; every other page is still present in the
\* returned text behind its marker.
C8_OnlyFailedPageEmpty ==
    (VlmReturned /\ FailedPages # {}) =>
        \A k \in DOMAIN pdf.pages :
            pdf.pages[k].vlm_ok =>
                Contains(extracted, <<Marker(k), NL>> \o pdf.pages[k].vlm_text)

\* C8 amended: when the vision request for one page fails, the function
\* returns at once, without raising, and its result is the empty string: the
\* pages already transcribed are dropped and no later page is requested.
C8_FailureEmptiesDocument ==
    FailedPages # {} =>
        /\ VlmReturned
        /\ extracted = <<>>
        /\ vlmLog[Len(vlmLog)].ev = "error"
        /\ \A p \in DOMAIN vlmLog : vlmLog[p].page <= vlmLog[Len(vlmLog)].page

\* C8 witness: page 2 of 3 failed after page 1 had been transcribed.
C8_Witness ==
    /\ VlmReturned /\ Len(pdf.pages) = 3
    /\ FailedPages = {2}
    /\ [ev |-> "response", page |-> 1] \in {vlmLog[p] : p \in DOMAIN vlmLog}
    /\ pdf.pages[1].vlm_text # <<>> /\ pdf.pages[3].vlm_ok

\* Requests are sequential: page k+1 is requested only after page k answered.
RequestsInPageOrder ==
    \A p \in DOMAIN vlmLog :
        (vlmLog[p].ev = "request" /\ vlmLog[p].page > 1) =>
            \E q \in 1..(p - 1) :
                vlmLog[q] = [ev |-> "response", page |-> vlmLog[p].page - 1]

\* C9 as claimed: the text returned for a scanned PDF of N page images holds
\* exactly N page markers, for k = 1..N in ascending order, and requests are
\* sequential.
C9_ExactlyNMarkers ==
    /\ RequestsInPageOrder
    /\ (VlmReturned /\ pdf.renderable) =>
           Markers(extracted) = [k \in 1..Len(pdf.pages) |-> Marker(k)]

\* C9 amended: when rendering and every page's request succeed, the text is
\* the N segments "--- Page k ---" + newline + transcription of page k, for
\* k = 1..N in ascending order, joined by blank lines, so it holds the N
\* markers the function wrote plus any marker line a transcription itself
\* contains; when rendering or a request fails, the text is empty and holds no
\* marker.  Requests are sequential.
C9_MarkersWhenAllSucceed ==
    /\ RequestsInPageOrder
    /\ (VlmReturned /\ AllPagesSucceed) =>
           LET N == Len(pdf.pages)
               segment == [k \in 1..N |-> <<Marker(k), NL>> \o pdf.pages[k].vlm_text]
           IN /\ extracted = join(<<Blank(2)>>, segment)
              /\ Len(Markers(extracted)) = N + SumMarkers(pdf.pages, N)
              /\ \A k \in 1..N : Contains(extracted, segment[k])
    /\ (VlmReturned /\ ~AllPagesSucceed) => extracted = <<>>

\* C9 witness: three pages, all transcribed, three markers in the text.
C9_Witness ==
    /\ VlmReturned /\ AllPagesSucceed /\ Len(pdf.pages) = 3
    /\ Markers(extracted) = <<Marker(1), Marker(2), Marker(3)>>
    /\ Len(vlmLog) = 6

----------------------------------------------------------------------------
\* Claims about the classifier, checked under SpecClassify.

\* The stripped length of the text layer of page i, 0 for a page that is not
\* there.
StrippedLen(i) ==
    IF i <= Len(pdf.pages) THEN TextLen(strip(pdf.pages[i].native)) ELSE 0

\* The classifier read its pages without an error.
ReadWithoutError ==
    /\ pdf.readable
    /\ \A i \in DOMAIN pdf.pages : i <= 3 => ~pdf.pages[i].raises

\* C10: is_pdf_scanned is true exactly when the stripped text lengths of the
\* first min(3, page count) pages sum to less than 100; a sum of exactly 100
\* is not scanned, and pages after the third play no part.
C10_ThresholdOnFirstThree ==
    (scanned # <<>> /\ ReadWithoutError) =>
        (scanned[1] = (StrippedLen(1) + StrippedLen(2) + StrippedLen(3) < 100))

\* C10 witness: the first three pages hold 99 characters (one of them wrapped
\* in whitespace), the fourth holds 1600, and the file is classified scanned.
C10_Witness ==
    /\ scanned = <<TRUE>>
    /\ Len(pdf.pages) = 4
    /\ StrippedLen(1) + StrippedLen(2) + StrippedLen(3) = 99
    /\ pdf.pages[2].native = <<Blank(2), Body(33), Blank(1)>>
    /\ pdf.pages[4].native = <<Body(1600)>>

\* Opening the file or reading one of the inspected pages raises.
ReadRaises == ~ReadWithoutError

\* What process_single_pdf makes of the classified file, alone in a folder,
\* with a vision client at hand.
ClassifiedFile == File(ApprovedRfp, <<"rfp", "1", ".pdf">>, pdf)
ProcessedClassified ==
    process_single_pdf({ClassifiedFile}, ClassifiedFile, "rfp", "approved", "1",
                       "Together")

\* C11: when opening the PDF or reading an inspected page raises,
\* is_pdf_scanned returns False instead of raising, and process_single_pdf
\* takes the native-text path for the file: whatever it yields comes from
\* the PDF loader as text_standard, never from the vision model.
C11_ErrorMeansNotScanned ==
    (scanned # <<>> /\ ReadRaises) =>
        /\ scanned[1] = FALSE
        /\ ProcessedClassified
              = [raised |-> PyPDFDirectoryLoader_load({ClassifiedFile}, ApprovedRfp).raised,
                 docs |-> ProcessedClassified.docs]
        /\ \A i \in DOMAIN ProcessedClassified.docs :
              ProcessedClassified.docs[i].doc_type = "text_standard"

\* C11 witness: the first page has no text, reading the second raises, and
\* the classifier has answered "not scanned".
C11_Witness ==
    /\ scanned = <<FALSE>>
    /\ pdf.readable
    /\ Len(pdf.pages) >= 2
    /\ pdf.pages[1].native = <<>> /\ ~pdf.pages[1].raises
    /\ pdf.pages[2].raises

----------------------------------------------------------------------------
\* Claims about the ingestion pass (SpecIngest).

IngestReturned == ingestPc = "returned"
ProjectNumbers == Digits

\* The requirement file and the response file of project n with outcome st,
\* as sets of files of the disk (empty when the file is not there).
RfpFolderOf(st) == IF st = "approved" THEN ApprovedRfp ELSE RejectedRfp
ResponseFolderOf(st) == IF st = "approved" THEN ApprovedResponse ELSE RejectedResponse
RfpFilesOf(n, st) ==
    {f \in FilesIn(fs, RfpFolderOf(st)) : extract_project_number(f.name, "rfp") = n}
ResponseFilesOf(n, st) ==
    {f \in FilesIn(fs, ResponseFolderOf(st)) :
        extract_project_number(f.name, "response") = n}
PassContainsPair(n, st) == RfpFilesOf(n, st) # {} /\ ResponseFilesOf(n, st) # {}

\* Whether the file contributed a document to the pass.
YieldedDocument(f) ==
    \E i \in DOMAIN all_documents :
        /\ all_documents[i].original_file = f.name
        /\ all_documents[i].source_folder = f.folder

\* Whether id is the doc id of a registered document of category cat and
\* project n.
RegisteredAs(id, cat, n) ==
    /\ id \in DOMAIN document_registry
    /\ document_registry[id].category = cat
    /\ document_registry[id].project_number = n

PairIdsComplete(n) ==
    /\ n \in DOMAIN rfp_response_mapping
    /\ rfp_response_mapping[n].rfp # NoId
    /\ rfp_response_mapping[n].response # NoId
    /\ RegisteredAs(rfp_response_mapping[n].rfp, "rfp", n)
    /\ RegisteredAs(rfp_response_mapping[n].response, "response", n)

\* The status of the document of project n that was registered first.
FirstStatusOf(n) ==
    LET first == CHOOSE i \in DOMAIN all_documents :
                     /\ all_documents[i].project_number = n
                     /\ \A j \in 1..(i - 1) : all_documents[j].project_number # n
    IN all_documents[first].rfp_status

C5_ChunksBoundedAndRegistered ==
    IngestReturned =>
        \A i \in DOMAIN chunks :
            /\ chunks[i].len <= 1500
            /\ chunks[i].doc_id \in DOMAIN document_registry
            /\ document_registry[chunks[i].doc_id].status = chunks[i].rfp_status
            /\ document_registry[chunks[i].doc_id].category = chunks[i].doc_category
            /\ document_registry[chunks[i].doc_id].project_number
                   = chunks[i].project_number
            /\ Cardinality({id \in DOMAIN document_registry : id = chunks[i].doc_id}) = 1

\* C5 witness: a pass returned a chunk of exactly 1500 characters next to
\* chunks of other documents.
C5_Witness ==
    /\ IngestReturned
    /\ \E i, j \in DOMAIN chunks :
          /\ chunks[i].len = 1500
          /\ chunks[j].doc_id # chunks[i].doc_id
          /\ chunks[i].doc_id \in DOMAIN document_registry

\* C7 as stated: a file whose extraction fails never aborts the pass, that
\* is, no exception leaves load_and_chunk_documents.
C7_BadFileNeverAborts == ingestPc # "raised"

\* C16 as stated: documents whose file names carry no project number are
\* never linked as a pair: the entry "unknown" of the mapping is not a
\* complete pair, neither as returned and reported nor as stored on disk.
C16_UnknownNeverPaired ==
    IngestReturned =>
        /\ "unknown" \notin complete_pairs(rfp_response_mapping)
        /\ "unknown" \notin complete_pairs(load_rfp_response_mapping)

\* The documents of category cat and project n, by position in registration
\* order.
RegisteredDocs(cat, n) ==
    {i \in DOMAIN all_documents :
        all_documents[i].doc_category = cat /\ all_documents[i].project_number = n}
Latest(positions) == CHOOSE i \in positions : \A j \in positions : j <= i

\* C17: registering several requirement documents under one project id is
\* last-write-wins: the entry's requirement id is the id of the one
\* registered last, no earlier id is referenced by the entry, and all of
\* them stay in the document registry.
C17_LastWriteWins ==
    ingestPc \in {"loop", "returned"} =>
        \A n \in DOMAIN rfp_response_mapping :
            LET docs == RegisteredDocs("rfp", n)
            IN docs # {} =>
                /\ rfp_response_mapping[n].rfp = all_documents[Latest(docs)].doc_id
                /\ \A i \in docs \ {Latest(docs)} :
                      /\ all_documents[i].doc_id # rfp_response_mapping[n].rfp
                      /\ all_documents[i].doc_id # rfp_response_mapping[n].response
                /\ \A i \in docs :
                      /\ all_documents[i].doc_id \in DOMAIN document_registry
                      /\ document_registry[all_documents[i].doc_id]
                            = RegistryEntry(all_documents[i])

\* C17 witness: the approved and the rejected requirement document of
\* project 1 were both registered, and the entry names the later one.
C17_Witness ==
    /\ IngestReturned
    /\ \E i, j \in RegisteredDocs("rfp", "1") :
          /\ i < j
          /\ all_documents[i].source_folder # all_documents[j].source_folder
          /\ j = Latest(RegisteredDocs("rfp", "1"))
          /\ rfp_response_mapping["1"].rfp = all_documents[j].doc_id
          /\ all_documents[i].doc_id \in DOMAIN document_registry

\* The files that went down the native-text path and gave documents.
NativeTypes == {"text_standard", "text_fallback"}
RegistryEntriesOf(f) ==
    {id \in DOMAIN document_registry :
        /\ document_registry[id].file = f.name
        /\ document_registry[id].folder = f.folder
        /\ document_registry[id].type \in NativeTypes}

\* C18 as stated: every source PDF ingested on the native-text path has
\* exactly one doc id and one registry entry, whatever its page count.
C18_OneDocumentPerNativeFile ==
    IngestReturned =>
        \A f \in fs : RegistryEntriesOf(f) # {} => Cardinality(RegistryEntriesOf(f)) = 1

\* C19 as stated: after every pass, also one that found no document, the
\* registry and the mapping read back from disk are the ones the pass
\* returned.
C19_DiskEqualsReturned ==
    IngestReturned =>
        /\ load_document_registry = document_registry
        /\ load_rfp_response_mapping = rfp_response_mapping

----------------------------------------------------------------------------
\* Claims about startup (SpecStartup).

StartupFinished == startPc \in {"serving", "exited"}
LoadFailed ==
    \/ "Corrupted FAISS index detected" \in console
    \/ "Erreur chargement index" \in console
RebuildTriggered == "Rebuilding vector store from documents" \in console
UsableIndex ==
    /\ loaded_index # <<>>
    /\ faiss_index = Index(TRUE, loaded_index[1])

\* C6 as stated, with source documents that can be ingested: on either
\* startup path, when the index on disk failed to load, the startup has
\* triggered a rebuild and finishes holding a usable index.
C6_RebuildOnCorruption ==
    (StartupFinished /\ LoadFailed /\ sources = "chunks")
        => (RebuildTriggered /\ UsableIndex)

----------------------------------------------------------------------------
\* Claims about assess_faithfulness (SpecAssess).

AssessReturned == assessResult # <<>>

\* C12: a record with status 'evaluated' has needs_enhancement true exactly
\* when its score is below the threshold of the call; a score equal to the
\* threshold gives needs_enhancement false.
C12_EnhanceIffBelowThreshold ==
    (AssessReturned /\ assessResult[1].status = "evaluated") =>
        /\ assessResult[1].score = <<assessCall.judge.score>>
        /\ assessResult[1].needs_enhancement
              = (assessResult[1].score[1] < assessCall.threshold)
        /\ (assessResult[1].score[1] = assessCall.threshold)
              => ~assessResult[1].needs_enhancement

\* C12 witness: a call with threshold 0.9 whose judge gave exactly 0.9
\* returned 'evaluated' without asking for enhancement.
C12_Witness ==
    /\ AssessReturned
    /\ assessResult[1].status = "evaluated"
    /\ assessCall.threshold = 90
    /\ assessResult[1].score = <<90>>
    /\ ~assessResult[1].needs_enhancement

\* C13: assess_faithfulness always returns a record: 'disabled' when the
\* judge is not configured, 'error' when the judge call fails, and in both
\* cases score is null and needs_enhancement is false; no exception reaches
\* the caller.
C13_DisabledOrErrorNeverRaises ==
    AssessReturned =>
        /\ assessResult[1].status \in {"disabled", "error", "evaluated"}
        /\ ~assessCall.configured => assessResult[1].status = "disabled"
        /\ (assessCall.configured /\ ~assessCall.judge.ok)
              => assessResult[1].status = "error"
        /\ assessResult[1].status \in {"disabled", "error"}
              => (assessResult[1].score = <<>> /\ ~assessResult[1].needs_enhancement)

\* C13 witness: the judge is configured, its call failed, and the caller got
\* an 'error' record.
C13_Witness ==
    /\ AssessReturned
    /\ assessCall.configured /\ ~assessCall.judge.ok
    /\ assessResult[1].status = "error"
    /\ assessResult[1].score = <<>>

----------------------------------------------------------------------------
\* Claims about the analysis loop (SpecJudge).

JudgedEvents == {i \in DOMAIN analysisLog : analysisLog[i].ev = "judged"}
RetrievedInRequest ==
    {FullDoc(complete_analysis.retrieved[i]) : i \in DOMAIN complete_analysis.retrieved}

\* C14 as stated, in its weakest reading: whatever the judge is handed for
\* the request being served is a chunk that the request's analysis
\* retrieved, as retrieved: not an excerpt of it and not a placeholder.
C14_EvaluatorGetsRetrievedChunks ==
    \A i \in JudgedEvents :
        analysisLog[i].request = complete_analysis.request =>
            \A j \in DOMAIN analysisLog[i].docs :
                analysisLog[i].docs[j] \in RetrievedInRequest

\* C15: the judge runs for a request only after the answer of that request
\* was generated, and the answer it scores is that answer, not the answer of
\* another request.
C15_JudgeAfterOwnGeneration ==
    \A i \in JudgedEvents :
        /\ analysisLog[i].answer = Answer(analysisLog[i].request)
        /\ \E j \in 1..(i - 1) :
              /\ analysisLog[j].ev = "generated"
              /\ analysisLog[j].request = analysisLog[i].request
              /\ analysisLog[j].answer = analysisLog[i].answer

\* C15 witness: the first request generated an answer, and the judge has
\* scored the answer of the second request.
C15_Witness ==
    /\ \E j \in DOMAIN analysisLog :
          /\ analysisLog[j].ev = "generated"
          /\ analysisLog[j].request = 1
          /\ analysisLog[j].answer = Answer(1)
    /\ \E i \in JudgedEvents :
          analysisLog[i].request = 2 /\ analysisLog[i].answer = Answer(2)

----------------------------------------------------------------------------
\* Claims about the vector index (SpecIndex).

----------------------------------------------------------------------------
\* Claims about the fallback of scanned files and about whose pages a file
\* gets (SpecIngest).

IngestOver == ingestPc \in {"returned", "raised"}

\* What process_single_pdf gives for a file of the disk, called as the pass
\* calls it.
ProcessedAs(f) ==
    LET folder_info == folder_mapping(f.folder)
        found == extract_project_number(f.name, folder_info.doc_category)
    IN process_single_pdf(fs, f, folder_info.doc_category, folder_info.rfp_status,
                          IF found = None THEN "unknown" ELSE found, vlm_client)

\* C21 as stated: without a vision client, a file classified as scanned is
\* extracted on the native-text path and its documents are tagged as fallback
\* text: process_single_pdf neither raises nor comes back without documents.
C21_ScannedWithoutClientFallsBack ==
    (IngestOver /\ vlm_client = None) =>
        \A f \in fs :
            is_pdf_scanned(f.pdf) =>
                /\ ~ProcessedAs(f).raised
                /\ ProcessedAs(f).docs # <<>>
                /\ \A i \in DOMAIN ProcessedAs(f).docs :
                      ProcessedAs(f).docs[i].doc_type = "text_fallback"

\* C25 as stated: every document process_single_pdf returned for a file has
\* its content from that file: no document the pass collected and registered
\* under a file carries the page of another file.
C25_OnlyOwnPages ==
    \A i \in DOMAIN all_documents :
        /\ all_documents[i].source = all_documents[i].original_file
        /\ all_documents[i].doc_id \in DOMAIN document_registry
        /\ document_registry[all_documents[i].doc_id].file = all_documents[i].source

\* The ids a mapping entry refers to.
IdsOf(mapping_entry) == {mapping_entry.rfp, mapping_entry.response} \ {NoId}

\* C24 as stated: after a pass, the registry entries of the documents a
\* mapping entry refers to have the entry's status and, as project number,
\* the entry's key.
C24_MappingStatusConsistent ==
    IngestReturned =>
        \A n \in DOMAIN rfp_response_mapping :
            \A id \in IdsOf(rfp_response_mapping[n]) :
                /\ id \in DOMAIN document_registry
                /\ document_registry[id].status = rfp_response_mapping[n].status
                /\ document_registry[id].project_number = n

----------------------------------------------------------------------------
\* Claims about the prompt enhancer (SpecEnhance).

\* C22 as stated: an enhance_from_murag_evaluation call made once an
\* evaluation has stored a score and a reason in muRag_vlm builds its judge
\* report from that score and that reason.
C22_ReportFromLatestEvaluation ==
    \A c \in {enhanceCall[i] : i \in DOMAIN enhanceCall} :
        (c.score # <<>> /\ c.reason # <<>>
            /\ (c.user_prompt # <<>> \/ c.analysis_prompt # <<>>)) =>
            judge_reports = <<JudgeReport(c.score[1], c.reason[1])>>

----------------------------------------------------------------------------
\* Claims about calls of the remote models that get no answer (SpecVlmLive).

\* C23 as stated: every call of the vision model is bounded: also when the
\* remote model never answers, the call is given up and the extraction
\* returns.
C23_ExtractionTerminates == <>(vlmPc = "done")

----------------------------------------------------------------------------
\* Claims about the files the startups leave on disk (SpecStartup).

\* C26 as stated: whenever ./faiss_index exists, the doc ids of its entries
\* are keys of the registry file on disk, that is, the registry files are of
\* the ingestion the index directory was built from.
C26_IndexEntriesInRegistry ==
    faiss_index.exists => registry_files = <<faiss_index.gen>>

----------------------------------------------------------------------------
\* Claims about the progress broadcast (SpecBroadcast).

\* C27 as stated: broadcast_progress never raises, and when it returns the
\* list holds no connection whose send it saw fail, whatever the endpoint
\* coroutines did in between.
C27_BroadcastNeverRaises ==
    /\ bcPc # "raised"
    /\ bcPc = "returned" =>
          \A i \in DOMAIN disconnected : ~InList(active_connections, disconnected[i])

----------------------------------------------------------------------------
\* Claims about the agent orchestrator (SpecOrchestrate).

\* Whether run_agent caught an exception for the agent in the last call.
AgentFailed(a) == a \notin agents \/ uses[a] = "raises"

\* C28 as stated: every call on the instance, the first or a later one,
\* submits both agents and returns; the status of what it returns is "error"
\* exactly when an agent failed, and otherwise "completed" with artifacts and
\* correlations.
C28_EveryCallReturns ==
    /\ orchPc # "raised"
    /\ orchPc = "returned" =>
          /\ orchResults[1].status = "error" <=> \E a \in AgentNames : AgentFailed(a)
          /\ orchResults[1].status # "error" =>
                /\ orchResults[1].status = "completed"
                /\ orchResults[1].artifacts = AgentNames
                /\ orchResults[1].correlations

----------------------------------------------------------------------------
\* Claims about execute_complete_rfp_analysis (SpecAnalysis).

AnalysisReturned == analysisCall # <<>> /\ analysisReturn # <<>>
StepsBefore(fail_at) == Prefix(StepNames, fail_at - 1)

\* C29 as stated: when any retrieval or LLM call of the analysis fails, the
\* record returned has an "error" entry, holds exactly the steps completed
\* before the failure, and has no "synthesis".
C29_AnyFailureGivesError ==
    AnalysisReturned =>
        LET c == analysisCall[1]
            r == analysisReturn[1]
        IN (c.fail_at # NoFailure \/ c.llm_down # {}) =>
               /\ r.error
               /\ r.synthesis = <<>>
               /\ c.fail_at # NoFailure => r.framework_steps = StepsBefore(c.fail_at)

\* C29, amended: the function returns its record whatever fails.  A failure
\* that reaches its try (a retrieval, the strategy call of step 3, the
\* synthesis call) gives an "error" entry, exactly the steps completed before
\* it, in order, and no "synthesis".  A failure of the LLM call inside
\* analyze_strategic_patterns_with_llm or analyze_competitive_intelligence
\* is caught there: the step completes with an error entry of its own and no
\* top-level "error" is set.  "synthesis" is there only with all four steps.
C29_ErrorKeepsCompletedSteps ==
    AnalysisReturned =>
        LET c == analysisCall[1]
            r == analysisReturn[1]
        IN /\ r.error <=> c.fail_at # NoFailure
           /\ r.error =>
                 /\ r.framework_steps = StepsBefore(c.fail_at)
                 /\ r.synthesis = <<>>
           /\ r.synthesis # <<>> => r.framework_steps = StepNames
           /\ ~r.error =>
                 /\ r.framework_steps = StepNames
                 /\ r.synthesis # <<>>
                 /\ r.step_errors = c.llm_down
           /\ \A e \in r.step_errors :
                 e \in c.llm_down /\ StepOfCall(e) <= Len(r.framework_steps)

\* C29 witness: step 3 raised after the LLM call of step 1 had failed and
\* been caught: the record has "error", steps 1 and 2, and no "synthesis".
C29_Witness ==
    /\ AnalysisReturned
    /\ analysisCall[1].fail_at = 3
    /\ analysisCall[1].llm_down = {"smart_patterns"}
    /\ analysisReturn[1].error
    /\ analysisReturn[1].framework_steps = SubSeq(StepNames, 1, 2)
    /\ analysisReturn[1].step_errors = {"smart_patterns"}
    /\ analysisReturn[1].synthesis = <<>>

----------------------------------------------------------------------------
\* Claims about the stored score and reason (SpecEvaluate).

\* C30: a call that returns a record whose status is not 'evaluated'
\* ('disabled', 'error' or 'insufficient_data') leaves last_evaluation_score
\* and last_evaluation_reason as they were; a call that returns 'evaluated'
\* stores the score and the reason of its record.
C30_GlobalsChangeOnlyOnEvaluated ==
    [][/\ assessResult'[1].status # "evaluated" =>
              /\ last_evaluation_score' = last_evaluation_score
              /\ last_evaluation_reason' = last_evaluation_reason
       /\ assessResult'[1].status = "evaluated" =>
              /\ last_evaluation_score' = assessResult'[1].score
              /\ last_evaluation_reason' = <<assessResult'[1].reason>>]_vars

\* C30 witness: after an evaluation had stored a score, a call whose judge
\* failed returned 'error' and the stored score and reason are still there.
C30_Witness ==
    /\ AssessReturned
    /\ assessResult[1].status = "error"
    /\ last_evaluation_score # <<>>
    /\ last_evaluation_reason # <<>>
    /\ last_evaluation_reason[1].score = last_evaluation_score[1]

============================================================================
